---- MODULE Spec2Model ----
(***************************************************************************)
(* A model of the zebra-puzzle solver (src/src/solver/solver.ts and        *)
(* src/src/solver/clueEval.ts) together with its caller, iterativeSolver   *)
(* and solvePuzzle (src/unnamed/part_002).                                 *)
(*                                                                         *)
(* Strings are tuples of one-character strings, so that prefix tests,      *)
(* character stripping, concatenation and parseInt are computed as the     *)
(* code computes them.  Matrix rows are functions from column indices      *)
(* 0..len-1 to BOOLEAN, like the zero-based JavaScript arrays.             *)
(***************************************************************************)
EXTENDS Integers, Sequences, FiniteSets, TLC

(***************************************************************************)
(* Strings                                                                 *)
(***************************************************************************)
Digits == <<"0", "1", "2", "3", "4", "5", "6", "7", "8", "9">>

IsDigit(c) == \E i \in 1..10 : Digits[i] = c

DigitVal(c) == (CHOOSE i \in 1..10 : Digits[i] = c) - 1

\* `${n}` for a non-negative integer n.
RECURSIVE IntStr(_)
IntStr(n) == IF n < 10 THEN <<Digits[n + 1]>>
             ELSE IntStr(n \div 10) \o <<Digits[(n % 10) + 1]>>

\* `${category}.${item}`
Key(category, item) == category \o <<".">> \o item

Hash == <<"#">>

(***************************************************************************)
(* Arithmetic values: JavaScript numbers restricted to the rationals, NaN  *)
(* and the infinities, and null.  A rational is n/d with d > 0.            *)
(***************************************************************************)
Num(n) == [k |-> "num", n |-> n, d |-> 1]
Null == [k |-> "null", n |-> 0, d |-> 1]
NaN == [k |-> "nan", n |-> 0, d |-> 1]
Inf(sign) == [k |-> "inf", n |-> sign, d |-> 1]

RECURSIVE Gcd(_, _)
Gcd(a, b) == IF b = 0 THEN a ELSE Gcd(b, a % b)

Abs(n) == IF n < 0 THEN -n ELSE n

Sign(n) == IF n < 0 THEN -1 ELSE IF n > 0 THEN 1 ELSE 0

\* The rational n/d (d # 0) in lowest terms with a positive denominator.
Rat(n, d) ==
    LET g == Gcd(Abs(n), Abs(d))
        s == IF d < 0 THEN -1 ELSE 1
    IN [k |-> "num", n |-> (s * n) \div g, d |-> (s * d) \div g]

\* parseInt(item): the leading run of digits, NaN when there is none.
RECURSIVE LeadingDigits(_, _)
LeadingDigits(s, acc) ==
    IF s = <<>> \/ ~IsDigit(Head(s)) THEN acc
    ELSE LeadingDigits(Tail(s), 10 * acc + DigitVal(Head(s)))

parseInt(s) ==
    IF s = <<>> \/ ~IsDigit(Head(s)) THEN NaN ELSE Num(LeadingDigits(s, 0))

\* JavaScript's comparison: -1, 0, 1, or 2 when an operand is NaN.
Cmp(l, r) ==
    IF l.k = "nan" \/ r.k = "nan" THEN 2
    ELSE IF l.k = "inf" /\ r.k = "inf" THEN Sign(l.n - r.n)
    ELSE IF l.k = "inf" THEN l.n
    ELSE IF r.k = "inf" THEN -r.n
    ELSE Sign(l.n * r.d - r.n * l.d)

\* The comparison functions handed to relationalEval and checkRelational.
ok(operator, l, r) ==
    LET c == Cmp(l, r)
    IN CASE operator = "==" -> c = 0
         [] operator = ">"  -> c = 1
         [] operator = "<"  -> c = -1
         [] operator = ">=" -> c \in {0, 1}
         [] operator = "<=" -> c \in {0, -1}
         [] operator = "!=" -> c # 0

ArithmeticOperators == {"+", "-", "*", "/", "%", "diff"}

\* l <operator> r on two numbers, as JavaScript computes it: the division is
\* the exact quotient, not the integer quotient.
Arith(operator, l, r) ==
    IF l.k = "nan" \/ r.k = "nan" THEN NaN
    ELSE IF l.k = "inf" \/ r.k = "inf" THEN
        CASE operator = "+" ->
                 IF l.k = "inf" /\ r.k = "inf" /\ l.n # r.n THEN NaN
                 ELSE IF l.k = "inf" THEN l ELSE r
          [] operator = "-" ->
                 IF l.k = "inf" /\ r.k = "inf" /\ l.n = r.n THEN NaN
                 ELSE IF l.k = "inf" THEN l ELSE Inf(-r.n)
          [] operator = "*" ->
                 IF Sign(l.n) * Sign(r.n) = 0 THEN NaN
                 ELSE Inf(Sign(l.n) * Sign(r.n))
          [] operator = "/" ->
                 IF l.k = "inf" /\ r.k = "inf" THEN NaN
                 ELSE IF l.k = "inf"
                      THEN Inf(l.n * (IF r.n < 0 THEN -1 ELSE 1))
                      ELSE Num(0)
          [] operator = "%" -> IF l.k = "inf" THEN NaN ELSE l
          [] operator = "diff" ->
                 IF l.k = "inf" /\ r.k = "inf" /\ l.n = r.n THEN NaN
                 ELSE Inf(1)
    ELSE
        CASE operator = "+" -> Rat(l.n * r.d + r.n * l.d, l.d * r.d)
          [] operator = "-" -> Rat(l.n * r.d - r.n * l.d, l.d * r.d)
          [] operator = "*" -> Rat(l.n * r.n, l.d * r.d)
          [] operator = "/" ->
                 IF r.n = 0
                 THEN (IF l.n = 0 THEN NaN ELSE Inf(Sign(l.n)))
                 ELSE Rat(l.n * r.d, l.d * r.n)
          [] operator = "%" ->
                 IF r.n = 0 THEN NaN
                 ELSE LET a == l.n * r.d
                          b == r.n * l.d
                      IN Rat(Sign(a) * (Abs(a) % Abs(b)), l.d * r.d)
          [] operator = "diff" ->
                 Rat(Abs(l.n * r.d - r.n * l.d), l.d * r.d)

(***************************************************************************)
(* The clue AST, built as the parser builds it.  `solved` is the mutable   *)
(* tri-state of a logical node ("undefined" until a checker sets it);      *)
(* `states` is the operand memo of a relational node (Null while unset).   *)
(* `distance` is -1 where the parser leaves it undefined.                  *)
(***************************************************************************)
Dollar == <<"$">>

Identifier(symbol) ==
    [type |-> "Identifier", symbol |-> symbol, returns |-> "other",
     dollar |-> symbol = Dollar]

NumericLiteral(value) ==
    [type |-> "NumericLiteral", value |-> value, returns |-> "arithmetic",
     dollar |-> FALSE]

NumericIdentifier(symbol, category) ==
    [type |-> "NumericIdentifier", symbol |-> symbol, category |-> category,
     returns |-> "arithmetic", dollar |-> symbol = Dollar]

ArithmeticBinaryOperation(operator, left, right) ==
    [type |-> "ArithmeticBinaryOperation", operator |-> operator,
     operands |-> <<left, right>>, returns |-> "arithmetic",
     dollar |-> left.dollar \/ right.dollar]

SetLiteral(values) ==
    [type |-> "SetLiteral", elements |-> values, returns |-> "other",
     dollar |-> \E i \in DOMAIN values : values[i].dollar]

RangeLiteral(start, end) ==
    [type |-> "RangeLiteral", start |-> start, end |-> end,
     returns |-> "other", dollar |-> start.dollar \/ end.dollar]

TruthsOperator(set) ==
    [type |-> "TruthsOperator", operator |-> "truths", operands |-> <<set>>,
     returns |-> "arithmetic",
     dollar |-> \E i \in DOMAIN set.elements : set.elements[i].dollar]

LogicalUnaryOperation(expr) ==
    [type |-> "LogicalUnaryOperation", operator |-> "!", operands |-> <<expr>>,
     returns |-> "logical", dollar |-> expr.dollar, solved |-> "undefined"]

LogicalBinaryOperation(operator, left, right) ==
    [type |-> "LogicalBinaryOperation", operator |-> operator,
     operands |-> <<left, right>>, returns |-> "logical",
     dollar |-> left.dollar \/ right.dollar, solved |-> "undefined"]

\* &&(...) and ||(...): the operator is the first character of the token.
LogicalOperation(operator, set) ==
    [type |-> "LogicalOperation", operator |-> operator,
     operands |-> set.elements, returns |-> "logical",
     dollar |-> \E i \in DOMAIN set.elements : set.elements[i].dollar,
     solved |-> "undefined"]

RelationalOperation(operator, left, right) ==
    [type |-> "RelationalOperation", operator |-> operator,
     operands |-> <<left, right>>, returns |-> "logical",
     dollar |-> left.dollar \/ right.dollar, solved |-> "undefined",
     states |-> [l |-> Null, r |-> Null]]

InOperator(left, right) ==
    [type |-> "InOperator", operator |-> "in", operands |-> <<left, right>>,
     returns |-> "logical", dollar |-> left.dollar \/ right.dollar,
     solved |-> "undefined"]

\* posOp: A = B, A - B, A -k- B, A -- B.
PositionalOperation(operator, left, right, dist) ==
    [type |-> "PositionalOperation", operator |-> operator,
     operands |-> <<left, right>>, distance |-> dist, returns |-> "logical",
     dollar |-> left.dollar \/ right.dollar, solved |-> "undefined"]

\* A _ B and A _k_ B (operator "-"), A __ B (operator "--"): the clue or its
\* mirror image.
UndirectedPositional(operator, left, right, dist) ==
    LogicalBinaryOperation("|",
        PositionalOperation(operator, left, right, dist),
        PositionalOperation(operator, right, left, dist))

(***************************************************************************)
(* Categories: the ordered mapping name -> items is a sequence of records  *)
(* in insertion order.                                                     *)
(***************************************************************************)
Category(name, items) == [name |-> name, items |-> items]

HasCategory(categories, name) ==
    \E i \in DOMAIN categories : categories[i].name = name

CategoryItems(categories, name) ==
    categories[CHOOSE i \in DOMAIN categories : categories[i].name = name].items

\* Array.includes
Includes(seq, x) == \E i \in DOMAIN seq : seq[i] = x

\* The [item, key] pairs of every category in order.
RECURSIVE ItemPairs(_)
ItemPairs(categories) ==
    IF categories = <<>> THEN <<>>
    ELSE [i \in DOMAIN Head(categories).items |->
             <<Head(categories).items[i],
               Key(Head(categories).name, Head(categories).items[i])>>]
         \o ItemPairs(Tail(categories))

\* The loop body over kva: an item already listed is removed, otherwise added.
KvaStep(kva, pair) ==
    IF \E i \in DOMAIN kva : kva[i][1] = pair[1]
    THEN LET i == CHOOSE j \in DOMAIN kva :
                     /\ kva[j][1] = pair[1]
                     /\ \A h \in 1..(j - 1) : kva[h][1] # pair[1]
         IN SubSeq(kva, 1, i - 1) \o SubSeq(kva, i + 1, Len(kva))
    ELSE Append(kva, pair)

RECURSIVE KvaFold(_, _)
KvaFold(kva, pairs) ==
    IF pairs = <<>> THEN kva ELSE KvaFold(KvaStep(kva, Head(pairs)), Tail(pairs))

\* The table built without the comparison of the category sizes.
shortNamesMapUnchecked(categories, greatCategories) ==
    LET strict == SelectSeq(categories, LAMBDA c : c.name \notin greatCategories)
        pairs == ItemPairs(categories)
        kva == KvaFold(<<>>, pairs)
    IN IF Len(categories) = 0
       THEN [exc |-> "NoCategories", nameKV |-> <<>>, itemOptions |-> <<>>,
             count |-> 0]
       ELSE [exc |-> "none",
             nameKV |-> [n \in {kva[i][1] : i \in DOMAIN kva} |->
                            kva[CHOOSE i \in DOMAIN kva : kva[i][1] = n][2]],
             itemOptions |-> [i \in DOMAIN pairs |-> pairs[i][2]],
             count |-> Len(strict[1].items)]

\* shortNamesMap: the short-name table, the row keys and the position count,
\* or the error it throws.
shortNamesMap(categories, greatCategories) ==
    LET strict == SelectSeq(categories, LAMBDA c : c.name \notin greatCategories)
        count == Len(strict[1].items)
        pairs == ItemPairs(categories)
        kva == KvaFold(<<>>, pairs)
        none == [nameKV |-> <<>>, itemOptions |-> <<>>, count |-> 0]
    IN IF Len(categories) = 0
       THEN [exc |-> "NoCategories"] @@ none
       ELSE IF strict = <<>>
       THEN [exc |-> "TypeError"] @@ none
       ELSE IF \E i \in DOMAIN categories :
                   /\ Len(categories[i].items) # count
                   /\ categories[i].name \notin greatCategories
       THEN [exc |-> "MismatchedCategorySize"] @@ none
       ELSE [exc |-> "none",
             nameKV |-> [n \in {kva[i][1] : i \in DOMAIN kva} |->
                            kva[CHOOSE i \in DOMAIN kva : kva[i][1] = n][2]],
             itemOptions |-> [i \in DOMAIN pairs |-> pairs[i][2]],
             count |-> count]

\* generateCombinations(n, k): the k-subsets of 0..n-1 that begin at `start`
\* or later, as ascending sequences in lexicographic order.
RECURSIVE backtrack(_, _, _, _)
backtrack(n, k, start, combination) ==
    IF Len(combination) = k THEN <<combination>>
    ELSE IF start >= n THEN <<>>
    ELSE backtrack(n, k, start + 1, Append(combination, start))
         \o backtrack(n, k, start + 1, combination)

generateCombinations(n, k) == backtrack(n, k, 0, <<>>)

\* combinations[k] is at index k + 1; combinations[0] is empty.
generateAllCombinations(count) ==
    IF count <= 1 THEN <<(<<>>)>>
    ELSE <<(<<>>)>> \o [i \in 1..(count - 1) |-> generateCombinations(count, i)]

\* The matrix generateInitialMatrix builds.
InitialMatrix(itemOptions, count) ==
    LET position(i) == Key(Hash, IntStr(i))
        keys == {itemOptions[i] : i \in DOMAIN itemOptions}
                    \cup {position(i) : i \in 1..count}
    IN [key \in keys |->
           IF \E i \in 1..count : key = position(i)
           THEN [p \in 0..(count - 1) |-> key = position(p + 1)]
           ELSE [p \in 0..(count - 1) |-> TRUE]]

\* The categories as generateInitialMatrix leaves them: categories['#'] is
\* set to "1".."N", in place when the key exists and appended otherwise.
WithPositions(categories, count) ==
    LET items == [i \in 1..count |-> IntStr(i)]
    IN IF HasCategory(categories, Hash)
       THEN [i \in DOMAIN categories |->
                IF categories[i].name = Hash THEN Category(Hash, items)
                ELSE categories[i]]
       ELSE Append(categories, Category(Hash, items))

(***************************************************************************)
(* The solver configuration `sc` is a record of categories,                *)
(* greatCategories, nameKV, itemOptions, count and combinations.  The      *)
(* identifier parser handed around as `p` is parseIdentifier with its      *)
(* binding `dollar`, which the model passes along as a parameter.          *)
(***************************************************************************)
StartsWithHash(name) == name # <<>> /\ Head(name) = "#"

\* name.replace(/[#.]/g, '')
StripHashDot(name) == SelectSeq(name, LAMBDA c : c \notin {"#", "."})

parseIdentifier(identifier, dollar, sc) ==
    IF "symbol" \notin DOMAIN identifier
    THEN [exc |-> "TypeError", key |-> <<>>]
    ELSE
    LET name == IF identifier.symbol \in DOMAIN sc.nameKV
                THEN sc.nameKV[identifier.symbol]
                ELSE identifier.symbol
    IN IF StartsWithHash(name)
       THEN [exc |-> "none", key |-> Hash \o <<".">> \o StripHashDot(name)]
       ELSE IF name = Dollar
       THEN [exc |-> "none", key |-> Key(Hash, IntStr(dollar))]
       ELSE IF ~Includes(sc.itemOptions, name)
       THEN [exc |-> "UnknownIdentifier", key |-> <<>>]
       ELSE [exc |-> "none", key |-> name]

\* row[i] read as a condition: a missing cell is undefined, hence falsy.
Cell(row, i) == i \in DOMAIN row /\ row[i]

RowLength(row) == Cardinality(DOMAIN row)

TrueCells(row) == {i \in DOMAIN row : row[i]}

Min(S) == CHOOSE x \in S : \A y \in S : x <= y

\* getTrueIndex: the sentinel `true` is thrown for several true cells and
\* the sentinel `false` for none.
getTrueIndex(ar) ==
    IF Cardinality(TrueCells(ar)) > 1 THEN [exc |-> "throw true", idx |-> -1]
    ELSE IF TrueCells(ar) = {} THEN [exc |-> "throw false", idx |-> -1]
    ELSE [exc |-> "none", idx |-> Min(TrueCells(ar))]

\* getTrueIndex(m[p(identifier)])
TrueIndexOf(identifier, m, d, sc) ==
    LET id == parseIdentifier(identifier, d, sc)
    IN IF id.exc # "none" THEN [exc |-> id.exc, idx |-> -1]
       ELSE IF id.key \notin DOMAIN m THEN [exc |-> "TypeError", idx |-> -1]
       ELSE getTrueIndex(m[id.key])

B2S(b) == IF b THEN "true" ELSE "false"

HasChecker(clue) ==
    CASE clue.type = "PositionalOperation" -> clue.operator \in {"=", "-", "--"}
      [] clue.type = "LogicalBinaryOperation" ->
             clue.operator \in {"&", "|", "^", "<=>", "=>"}
      [] clue.type = "LogicalOperation" -> clue.operator \in {"&", "|"}
      [] clue.type = "LogicalUnaryOperation" -> clue.operator = "!"
      [] clue.type = "InOperator" -> clue.operator = "in"
      [] clue.type = "RelationalOperation" ->
             clue.operator \in {"==", ">", "<", ">=", "<=", "!="}
      [] OTHER -> FALSE

\* The value of a NumericIdentifier x:cat on the matrix.
\* cells are the (column, item index) pairs with both cells true, in loop
\* order.
RECURSIVE NumericValue(_, _, _)
NumericValue(cells, val, items) ==
    IF cells = <<>> THEN val
    ELSE LET v == parseInt(items[Head(cells)[2]])
         IN IF val.k = "null" THEN NumericValue(Tail(cells), v, items)
            ELSE IF Cmp(val, v) # 0 THEN Null
            ELSE NumericValue(Tail(cells), val, items)

\* A checker's result: its boolean v, or the exception exc it throws, and
\* the clue with the `solved` and `states` fields as the run leaves them.
RECURSIVE checkClueThrowable(_, _, _, _)
RECURSIVE parseArithmetic(_, _, _, _)
RECURSIVE CheckEach(_, _, _, _)
RECURSIVE ArithmeticEach(_, _, _, _)

\* const v = ...: the value is computed once and the rest G uses it.
With(v, G(_)) == G(v)

\* checkClueThrowable on each clue of a list in order, up to the first throw.
CheckEach(clues, m, d, sc) ==
    IF clues = <<>> THEN [exc |-> "none", vs |-> <<>>, toks |-> <<>>]
    ELSE With(checkClueThrowable(Head(clues), m, d, sc), LAMBDA a :
         IF a.exc # "none"
         THEN [exc |-> a.exc, vs |-> <<>>, toks |-> <<a.tok>> \o Tail(clues)]
         ELSE With(CheckEach(Tail(clues), m, d, sc), LAMBDA rest :
              [exc |-> rest.exc, vs |-> <<a.v>> \o rest.vs,
               toks |-> <<a.tok>> \o rest.toks]))

\* parseArithmetic on each expression of a list in order, up to the first
\* throw.
ArithmeticEach(exps, m, d, sc) ==
    IF exps = <<>> THEN [exc |-> "none", vals |-> <<>>, toks |-> <<>>]
    ELSE With(parseArithmetic(Head(exps), m, d, sc), LAMBDA a :
         IF a.exc # "none"
         THEN [exc |-> a.exc, vals |-> <<>>, toks |-> <<a.tok>> \o Tail(exps)]
         ELSE With(ArithmeticEach(Tail(exps), m, d, sc), LAMBDA rest :
              [exc |-> rest.exc, vals |-> <<a.val>> \o rest.vals,
               toks |-> <<a.tok>> \o rest.toks]))

\* The NumericIdentifier case of parseArithmetic once the row key is known.
NumericIdentifierValue(exp, key, m, sc) ==
    LET idRow == m[key]
        items == CategoryItems(sc.categories, exp.category)
        n == Len(items)
        cols == {i \in 0..(RowLength(idRow) - 1) : Cell(idRow, i)}
        all == [x \in 1..(RowLength(idRow) * n) |->
                   <<(x - 1) \div n, ((x - 1) % n) + 1>>]
        cells == SelectSeq(all, LAMBDA c :
                     /\ c[1] \in cols
                     /\ Cell(m[Key(exp.category, items[c[2]])], c[1]))
    IN NumericValue(cells, Null, items)

parseArithmetic(exp, m, d, sc) ==
    CASE exp.type = "NumericLiteral" ->
             [exc |-> "none", val |-> Num(exp.value), tok |-> exp]
      [] exp.type = "NumericIdentifier" ->
             With(parseIdentifier(exp, d, sc), LAMBDA id :
             IF id.exc # "none"
             THEN [exc |-> id.exc, val |-> Null, tok |-> exp]
             ELSE IF ~HasCategory(sc.categories, exp.category)
             THEN [exc |-> "UnknownCategory", val |-> Null, tok |-> exp]
             ELSE IF id.key \notin DOMAIN m
             THEN [exc |-> "TypeError", val |-> Null, tok |-> exp]
             ELSE [exc |-> "none",
                   val |-> NumericIdentifierValue(exp, id.key, m, sc),
                   tok |-> exp])
      [] exp.type = "ArithmeticBinaryOperation" ->
             With(ArithmeticEach(exp.operands, m, d, sc), LAMBDA a :
             With([exp EXCEPT !.operands = a.toks], LAMBDA tok :
             IF a.exc # "none"
             THEN [exc |-> a.exc, val |-> Null, tok |-> tok]
             ELSE IF a.vals[1].k = "null" \/ a.vals[2].k = "null"
             THEN [exc |-> "none", val |-> Null, tok |-> tok]
             ELSE IF exp.operator \notin ArithmeticOperators
             THEN [exc |-> "UnexpectedOperator", val |-> Null, tok |-> tok]
             ELSE [exc |-> "none",
                   val |-> Arith(exp.operator, a.vals[1], a.vals[2]),
                   tok |-> tok]))
      [] exp.type = "TruthsOperator" ->
             With(CheckEach(exp.operands[1].elements, m, d, sc), LAMBDA a :
             With([exp EXCEPT !.operands[1].elements = a.toks], LAMBDA tok :
             IF a.exc # "none"
             THEN [exc |-> a.exc, val |-> Null, tok |-> tok]
             ELSE [exc |-> "none",
                   val |-> Num(Cardinality({i \in DOMAIN a.vs : a.vs[i]})),
                   tok |-> tok]))
      [] OTHER -> [exc |-> "none", val |-> Null, tok |-> exp]

\* The loop of the identifier-in-set checker: true at the first element in
\* the column l.
RECURSIVE InIdentifiers(_, _, _, _, _)
InIdentifiers(elements, l, m, d, sc) ==
    IF elements = <<>> THEN [exc |-> "none", v |-> FALSE]
    ELSE With(TrueIndexOf(Head(elements), m, d, sc), LAMBDA r :
         IF r.exc # "none" THEN [exc |-> r.exc, v |-> FALSE]
         ELSE IF l = r.idx THEN [exc |-> "none", v |-> TRUE]
         ELSE InIdentifiers(Tail(elements), l, m, d, sc))

\* The loop of the arithmetic-in-set checker.
RECURSIVE InArithmetics(_, _, _, _, _)
InArithmetics(elements, val, m, d, sc) ==
    IF elements = <<>> THEN [exc |-> "none", v |-> FALSE, toks |-> <<>>]
    ELSE IF Head(elements).returns # "arithmetic"
    THEN [exc |-> "SetRequiresArithmetic", v |-> FALSE, toks |-> elements]
    ELSE With(parseArithmetic(Head(elements), m, d, sc), LAMBDA a :
         IF a.exc # "none"
         THEN [exc |-> a.exc, v |-> FALSE, toks |-> <<a.tok>> \o Tail(elements)]
         ELSE IF a.val.k = "null" \/ Cmp(a.val, val) = 0
         THEN [exc |-> "none", v |-> TRUE, toks |-> <<a.tok>> \o Tail(elements)]
         ELSE With(InArithmetics(Tail(elements), val, m, d, sc), LAMBDA rest :
              [exc |-> rest.exc, v |-> rest.v,
               toks |-> <<a.tok>> \o rest.toks]))

\* token.states.l ?? parseArithmetic(operand): a memoised value is used as
\* it is.
Memoised(state, operand, m, d, sc) ==
    IF state.k # "null" THEN [exc |-> "none", val |-> state, tok |-> operand]
    ELSE parseArithmetic(operand, m, d, sc)

checkRelational(token, m, d, sc) ==
    With(Memoised(token.states.l, token.operands[1], m, d, sc), LAMBDA l :
    With([token EXCEPT !.operands[1] = l.tok, !.states.l = l.val], LAMBDA t1 :
    IF l.exc # "none" THEN [exc |-> l.exc, v |-> FALSE, tok |-> t1]
    ELSE
    With(Memoised(token.states.r, token.operands[2], m, d, sc), LAMBDA r :
    With([t1 EXCEPT !.operands[2] = r.tok, !.states.r = r.val], LAMBDA t2 :
    IF r.exc # "none" THEN [exc |-> r.exc, v |-> FALSE, tok |-> t2]
    ELSE IF l.val.k = "null" \/ r.val.k = "null"
    THEN [exc |-> "none", v |-> TRUE, tok |-> t2]
    ELSE [exc |-> "none", v |-> ok(token.operator, l.val, r.val),
          tok |-> [t2 EXCEPT !.solved = B2S(ok(token.operator, l.val, r.val))]]))))

\* The value of a logical operator on the values vs of its operands.
Logical(token, vs) ==
    CASE token.type = "LogicalUnaryOperation" -> ~vs[1]
      [] token.type = "LogicalOperation" ->
             IF token.operator = "&" THEN \A i \in DOMAIN vs : vs[i]
             ELSE \E i \in DOMAIN vs : vs[i]
      [] token.operator = "&" -> vs[1] /\ vs[2]
      [] token.operator = "|" -> vs[1] \/ vs[2]
      [] token.operator = "^" -> vs[1] # vs[2]
      [] token.operator = "<=>" -> vs[1] = vs[2]
      [] token.operator = "=>" -> ~vs[1] \/ vs[2]

\* The value of a positional operator on the columns l and r.
Positional(token, l, r) ==
    CASE token.operator = "=" -> l = r
      [] token.operator = "-" ->
             r - l = (IF token.distance = -1 THEN 1 ELSE token.distance)
      [] token.operator = "--" -> l < r

\* The arithmetic form of the `in` checker.
ArithmeticIn(token, m, d, sc) ==
    With(parseArithmetic(token.operands[1], m, d, sc), LAMBDA val :
    With([token EXCEPT !.operands[1] = val.tok], LAMBDA t1 :
    IF val.exc # "none" THEN [exc |-> val.exc, v |-> FALSE, tok |-> t1]
    ELSE IF val.val.k = "null" THEN [exc |-> "none", v |-> TRUE, tok |-> t1]
    ELSE IF token.operands[2].type = "SetLiteral"
    THEN With(InArithmetics(token.operands[2].elements, val.val, m, d, sc),
              LAMBDA r : [exc |-> r.exc, v |-> r.v,
                          tok |-> [t1 EXCEPT !.operands[2].elements = r.toks]])
    ELSE With(ArithmeticEach(<<token.operands[2].start, token.operands[2].end>>,
                             m, d, sc), LAMBDA se :
         With([t1 EXCEPT !.operands[2].start = se.toks[1],
                         !.operands[2].end = se.toks[2]], LAMBDA t2 :
         IF se.exc # "none" THEN [exc |-> se.exc, v |-> FALSE, tok |-> t2]
         ELSE IF se.vals[1].k = "null" \/ se.vals[2].k = "null"
         THEN [exc |-> "none", v |-> TRUE, tok |-> t2]
         ELSE [exc |-> "none",
               v |-> /\ ok(">=", val.val, se.vals[1])
                     /\ ok("<=", val.val, se.vals[2]),
               tok |-> t2]))))

\* clueCheckers[token.type][token.operator](token, m, p, sc)
clueCheckers(token, m, d, sc) ==
    CASE token.type = "PositionalOperation" ->
             With(TrueIndexOf(token.operands[1], m, d, sc), LAMBDA l :
             IF l.exc # "none" THEN [exc |-> l.exc, v |-> FALSE, tok |-> token]
             ELSE With(TrueIndexOf(token.operands[2], m, d, sc), LAMBDA r :
             IF r.exc # "none" THEN [exc |-> r.exc, v |-> FALSE, tok |-> token]
             ELSE [exc |-> "none", v |-> Positional(token, l.idx, r.idx),
                   tok |-> [token EXCEPT
                               !.solved = B2S(Positional(token, l.idx, r.idx))]]))
      [] token.type \in {"LogicalBinaryOperation", "LogicalOperation",
                         "LogicalUnaryOperation"} ->
             With(CheckEach(token.operands, m, d, sc), LAMBDA a :
             With([token EXCEPT !.operands = a.toks], LAMBDA tok :
             IF a.exc # "none" THEN [exc |-> a.exc, v |-> FALSE, tok |-> tok]
             ELSE [exc |-> "none", v |-> Logical(token, a.vs),
                   tok |-> IF \A i \in DOMAIN a.toks :
                                  a.toks[i].solved # "undefined"
                           THEN [tok EXCEPT !.solved = B2S(Logical(token, a.vs))]
                           ELSE tok]))
      [] token.type = "InOperator" ->
             IF token.operands[1].type = "Identifier" THEN
                 IF token.operands[2].type # "SetLiteral"
                 THEN [exc |-> "InvalidPositionalOperand", v |-> FALSE, tok |-> token]
                 ELSE With(TrueIndexOf(token.operands[1], m, d, sc), LAMBDA l :
                      IF l.exc # "none"
                      THEN [exc |-> l.exc, v |-> FALSE, tok |-> token]
                      ELSE With(InIdentifiers(token.operands[2].elements, l.idx,
                                              m, d, sc), LAMBDA r :
                           [exc |-> r.exc, v |-> r.v, tok |-> token]))
             ELSE IF token.operands[1].returns = "arithmetic"
             THEN ArithmeticIn(token, m, d, sc)
             ELSE [exc |-> "none", v |-> FALSE, tok |-> token]
      [] token.type = "RelationalOperation" -> checkRelational(token, m, d, sc)

checkClueThrowable(clue, m, d, sc) ==
    IF clue.solved # "undefined"
    THEN [exc |-> "none", v |-> clue.solved = "true", tok |-> clue]
    ELSE IF ~HasChecker(clue) THEN [exc |-> "none", v |-> TRUE, tok |-> clue]
    ELSE clueCheckers(clue, m, d, sc)

\* checkClue: the checker runs on a clone of the clue, and whatever it
\* throws (a sentinel or an error) is turned into true.
checkClue(clue, matrix, d, sc) ==
    IF clue.solved # "undefined" THEN clue.solved = "true"
    ELSE IF ~HasChecker(clue) THEN TRUE
    ELSE With(clueCheckers(clue, matrix, d, sc), LAMBDA c :
         IF c.exc # "none" THEN TRUE ELSE c.v)

(***************************************************************************)
(* Matrix writes.  A propagation step works on a pair [m, exc]: the matrix *)
(* as written so far and the exception thrown, "none" while none is.       *)
(***************************************************************************)
\* row[i] = b.  A write past the end lengthens the array (the cells between
\* are holes, which read as falsy); a write at a negative index sets a
\* property that is not an array cell and that no code reads.
\* A write that sets the cell whatever the value written.
SetRowTrue(row, i, b) ==
    IF i < 0 THEN row
    ELSE [j \in (DOMAIN row) \cup {i} |-> IF j = i THEN TRUE ELSE Cell(row, j)]

SetRow(row, i, b) ==
    IF i < 0 THEN row
    ELSE IF i \in DOMAIN row THEN [row EXCEPT ![i] = b]
    ELSE [j \in 0..i |-> IF j = i THEN b ELSE Cell(row, j)]

\* m[key][i] = b: a TypeError when m[key] is undefined.
SetCell(st, key, i, b) ==
    IF st.exc # "none" THEN st
    ELSE IF key \notin DOMAIN st.m THEN [st EXCEPT !.exc = "TypeError"]
    ELSE [st EXCEPT !.m[key] = SetRow(st.m[key], i, b)]

\* The first loop of positionalDistanceEval, from column i on.
RECURSIVE DistanceKeep(_, _, _, _, _, _)
DistanceKeep(st, count, l, r, dist, i) ==
    IF st.exc # "none" \/ i >= count - dist THEN st
    ELSE IF l \notin DOMAIN st.m THEN [st EXCEPT !.exc = "TypeError"]
    ELSE IF Cell(st.m[l], i) /\ r \notin DOMAIN st.m
    THEN [st EXCEPT !.exc = "TypeError"]
    ELSE IF Cell(st.m[l], i) /\ Cell(st.m[r], i + dist)
    THEN DistanceKeep(st, count, l, r, dist, i + 1)
    ELSE DistanceKeep(SetCell(SetCell(st, l, i, FALSE), r, i + dist, FALSE),
                      count, l, r, dist, i + 1)

\* A second loop that clears nothing.
DistanceEdgesSkip(st, count, l, r, dist, i) == st

\* The second loop of positionalDistanceEval, from i on.
RECURSIVE DistanceEdges(_, _, _, _, _, _)
DistanceEdges(st, count, l, r, dist, i) ==
    IF st.exc # "none" \/ i >= dist THEN st
    ELSE DistanceEdges(
             SetCell(SetCell(st, l, count - dist + i, FALSE), r, i, FALSE),
             count, l, r, dist, i + 1)

\* A propagation that writes nothing.
positionalDistanceSkip(st, sc, l, r, dist) == st

positionalDistanceEval(st, sc, l, r, dist) ==
    DistanceEdges(DistanceKeep(st, sc.count, l, r, dist, 0),
                  sc.count, l, r, dist, 0)

\* The first loop of the `--` evaluator: r is cleared up to and including
\* the first column where l is possible.
RECURSIVE LeftSweep(_, _, _, _, _)
LeftSweep(st, count, l, r, i) ==
    IF st.exc # "none" \/ i >= count THEN st
    ELSE LET w == SetCell(st, r, i, FALSE)
         IN IF w.exc # "none" THEN w
            ELSE IF l \notin DOMAIN w.m THEN [w EXCEPT !.exc = "TypeError"]
            ELSE IF Cell(w.m[l], i) THEN w
            ELSE LeftSweep(w, count, l, r, i + 1)

\* A second loop that clears nothing.
RightSweepSkip(st, count, l, r, i) == st

\* The second loop: l is cleared down to and including the last column
\* where r is possible.
RECURSIVE RightSweep(_, _, _, _, _)
RightSweep(st, count, l, r, i) ==
    IF st.exc # "none" \/ i < 0 THEN st
    ELSE LET w == SetCell(st, l, i, FALSE)
         IN IF w.exc # "none" THEN w
            ELSE IF r \notin DOMAIN w.m THEN [w EXCEPT !.exc = "TypeError"]
            ELSE IF Cell(w.m[r], i) THEN w
            ELSE RightSweep(w, count, l, r, i - 1)

\* The rows of the first sc.count items of the category that have no
\* possibility in any column of the combination (matchingRows), as
\* zero-based item indices.
MatchingRows(m, category, combination, sc) ==
    LET items == CategoryItems(sc.categories, category)
    IN {i \in 0..(sc.count - 1) :
           \A c \in DOMAIN combination :
               ~Cell(m[Key(category, items[i + 1])], combination[c])}

\* The body of the loop over the combinations of one size.
EliminateCombination(m, category, size, combination, sc) ==
    LET items == CategoryItems(sc.categories, category)
        matchingRows == MatchingRows(m, category, combination, sc)
        columns == {j \in 0..(size - 1) : ~Includes(combination, j)}
    IN IF Cardinality(matchingRows) < sc.count - size THEN m
       ELSE [key \in DOMAIN m |->
                IF \E i \in 0..(size - 1) :
                       i \notin matchingRows /\ key = Key(category, items[i + 1])
                THEN [p \in DOMAIN m[key] |-> m[key][p] /\ p \notin columns]
                ELSE m[key]]

RECURSIVE EliminateCombinations(_, _, _, _, _)
EliminateCombinations(m, category, size, combinations, sc) ==
    IF combinations = <<>> THEN m
    ELSE EliminateCombinations(
             EliminateCombination(m, category, size, Head(combinations), sc),
             category, size, Tail(combinations), sc)

RECURSIVE EliminateSizes(_, _, _, _)
EliminateSizes(m, category, size, sc) ==
    IF size >= sc.count THEN m
    ELSE EliminateSizes(
             EliminateCombinations(m, category, size,
                                   sc.combinations[size + 1], sc),
             category, size + 1, sc)

\* eliminateImpossibleOptionsByCategory.  A category with fewer than
\* sc.count items has an undefined row, which the first filter reads.
eliminateImpossibleOptionsByCategory(st, category, sc) ==
    IF st.exc # "none" THEN st
    ELSE IF sc.count >= 2 /\ Len(CategoryItems(sc.categories, category)) < sc.count
    THEN [st EXCEPT !.exc = "TypeError"]
    ELSE [st EXCEPT !.m = EliminateSizes(st.m, category, 1, sc)]

RECURSIVE EliminateFrom(_, _, _)
EliminateFrom(st, i, sc) ==
    IF i > Len(sc.categories) THEN st
    ELSE EliminateFrom(
             eliminateImpossibleOptionsByCategory(st, sc.categories[i].name, sc),
             i + 1, sc)

eliminateImpossibleOptions(st, sc) == EliminateFrom(st, 1, sc)

(***************************************************************************)
(* The clue propagator.  A result is [m, exc, tok]: the matrix as written, *)
(* the exception thrown, and the clue with the memo fields as the checker  *)
(* runs started for truths(...) left them (the propagator works on the     *)
(* clue itself, not on a clone).                                           *)
(***************************************************************************)
HasEvaluator(clue) ==
    CASE clue.type = "PositionalOperation" -> clue.operator \in {"=", "-", "--"}
      [] clue.type = "LogicalBinaryOperation" -> clue.operator \in {"&", "|"}
      [] clue.type = "LogicalOperation" -> clue.operator \in {"&", "|"}
      [] clue.type = "InOperator" -> clue.operator = "in"
      [] clue.type = "RelationalOperation" ->
             clue.operator \in {"==", ">", "<", ">=", "<=", "!="}
      [] OTHER -> FALSE

\* can[i] after the loop over the set elements of `x in (...)`.
RECURSIVE InCan(_, _, _, _, _)
InCan(elements, can, m, d, sc) ==
    IF elements = <<>> THEN [exc |-> "none", can |-> can]
    ELSE With(parseIdentifier(Head(elements), d, sc), LAMBDA r :
         IF r.exc # "none" THEN [exc |-> r.exc, can |-> can]
         ELSE IF sc.count > 0 /\ r.key \notin DOMAIN m
         THEN [exc |-> "TypeError", can |-> can]
         ELSE InCan(Tail(elements),
                    [i \in DOMAIN can |-> can[i] \/ Cell(m[r.key], i)],
                    m, d, sc))

\* The clearing loop of relationalEval: the items of the category whose
\* numeric value fails the comparison are cleared at column pos.
RECURSIVE RelationalClear(_, _, _, _, _, _, _, _)
RelationalClear(st, category, items, pos, operator, other, idLeft, i) ==
    IF i > Len(items) THEN st
    ELSE LET v == parseInt(items[i])
             keep == IF idLeft THEN ok(operator, v, other)
                     ELSE ok(operator, other, v)
         IN RelationalClear(
                IF keep THEN st ELSE SetCell(st, Key(category, items[i]), pos, FALSE),
                category, items, pos, operator, other, idLeft, i + 1)

RECURSIVE parseClue(_, _, _, _)
RECURSIVE ParseEach(_, _, _, _)

\* parseClue on each clue of a list in order, on the same matrix.
ParseEach(clues, st, d, sc) ==
    IF clues = <<>> THEN [m |-> st.m, exc |-> st.exc, toks |-> <<>>]
    ELSE IF st.exc # "none" THEN [m |-> st.m, exc |-> st.exc, toks |-> clues]
    ELSE With(parseClue(Head(clues), st.m, d, sc), LAMBDA a :
         With(ParseEach(Tail(clues), [m |-> a.m, exc |-> a.exc], d, sc),
              LAMBDA rest : [m |-> rest.m, exc |-> rest.exc,
                             toks |-> <<a.tok>> \o rest.toks]))

\* The copy of m on which one disjunct is propagated and elimination run.
Snapshot(clue, m, d, sc) ==
    With(parseClue(clue, m, d, sc), LAMBDA a :
    With(eliminateImpossibleOptions([m |-> a.m, exc |-> a.exc], sc), LAMBDA e :
         [m |-> e.m, exc |-> e.exc, tok |-> a.tok]))

\* The snapshots of the disjuncts in order, each made from a copy of m.
RECURSIVE Snapshots(_, _, _, _)
Snapshots(clues, m, d, sc) ==
    IF clues = <<>> THEN [exc |-> "none", ms |-> <<>>, toks |-> <<>>]
    ELSE With(Snapshot(Head(clues), m, d, sc), LAMBDA a :
         IF a.exc # "none"
         THEN [exc |-> a.exc, ms |-> <<>>, toks |-> <<a.tok>> \o Tail(clues)]
         ELSE With(Snapshots(Tail(clues), m, d, sc), LAMBDA rest :
              [exc |-> rest.exc, ms |-> <<a.m>> \o rest.ms,
               toks |-> <<a.tok>> \o rest.toks]))

\* m with every cell cleared that is false in one of the snapshots.
IntersectAll(m, ms, count) ==
    [key \in DOMAIN m |->
        [p \in DOMAIN m[key] |->
            IF p < count /\ \E s \in DOMAIN ms : ~Cell(ms[s][key], p)
            THEN FALSE ELSE m[key][p]]]

\* m with every cell cleared that is false in all the snapshots.
Intersect(m, ms, count) ==
    [key \in DOMAIN m |->
        [p \in DOMAIN m[key] |->
            IF p < count /\ \A s \in DOMAIN ms : ~Cell(ms[s][key], p)
            THEN FALSE ELSE m[key][p]]]

\* evalBinaryLogical: both disjuncts are propagated, each on its own copy
\* of m, before elimination runs on either copy.
evalBinaryLogical(token, m, d, sc) ==
    With(parseClue(token.operands[1], m, d, sc), LAMBDA a1 :
    With([token EXCEPT !.operands[1] = a1.tok], LAMBDA tok1 :
    IF a1.exc # "none" THEN [m |-> m, exc |-> a1.exc, tok |-> tok1]
    ELSE
    With(parseClue(token.operands[2], m, d, sc), LAMBDA a2 :
    With([tok1 EXCEPT !.operands[2] = a2.tok], LAMBDA tok :
    IF a2.exc # "none" THEN [m |-> m, exc |-> a2.exc, tok |-> tok]
    ELSE
    With(eliminateImpossibleOptions([m |-> a1.m, exc |-> "none"], sc), LAMBDA e1 :
    With(eliminateImpossibleOptions([m |-> a2.m, exc |-> e1.exc], sc), LAMBDA e2 :
    IF e2.exc # "none" THEN [m |-> m, exc |-> e2.exc, tok |-> tok]
    ELSE [m |-> Intersect(m, <<e1.m, e2.m>>, sc.count), exc |-> "none",
          tok |-> tok]))))))

\* relationalEval once the other operand has its value `other`: the row of
\* the identifier must hold exactly one position.
RelationalRow(token, id, idLeft, other, tok, m, d, sc) ==
    With(parseIdentifier(id, d, sc), LAMBDA key :
    IF key.exc # "none" THEN [m |-> m, exc |-> key.exc, tok |-> tok]
    ELSE IF key.key \notin DOMAIN m THEN [m |-> m, exc |-> "TypeError", tok |-> tok]
    ELSE IF Cardinality(TrueCells(m[key.key])) # 1
    THEN [m |-> m, exc |-> "none", tok |-> tok]
    ELSE IF ~HasCategory(sc.categories, id.category)
    THEN [m |-> m, exc |-> "UnknownCategory", tok |-> tok]
    ELSE With(RelationalClear([m |-> m, exc |-> "none"], id.category,
                              CategoryItems(sc.categories, id.category),
                              Min(TrueCells(m[key.key])), token.operator,
                              other, idLeft, 1),
              LAMBDA st : [m |-> st.m, exc |-> st.exc, tok |-> tok]))

relationalEval(token, m, d, sc) ==
    LET idLeft == token.operands[1].type = "NumericIdentifier"
        id == IF idLeft THEN token.operands[1] ELSE token.operands[2]
        o == IF idLeft THEN 2 ELSE 1
    IN IF ~idLeft /\ token.operands[2].type # "NumericIdentifier"
       THEN [m |-> m, exc |-> "none", tok |-> token]
       ELSE With(parseArithmetic(token.operands[o], m, d, sc), LAMBDA other :
            With([token EXCEPT !.operands[o] = other.tok], LAMBDA tok :
            IF other.exc # "none" THEN [m |-> m, exc |-> other.exc, tok |-> tok]
            ELSE IF other.val.k = "null" THEN [m |-> m, exc |-> "none", tok |-> tok]
            ELSE RelationalRow(token, id, idLeft, other.val, tok, m, d, sc)))

\* The three positional evaluators on the rows l and r.
PositionalEval(token, m, l, r, sc) ==
    LET st == [m |-> m, exc |-> "none"]
    IN CASE token.operator = "=" -> positionalDistanceEval(st, sc, l, r, 0)
         [] token.operator = "-" ->
                positionalDistanceEval(st, sc, l, r,
                    IF token.distance = -1 THEN 1 ELSE token.distance)
         [] token.operator = "--" ->
                RightSweep(LeftSweep(st, sc.count, l, r, 0),
                           sc.count, l, r, sc.count - 1)

\* The identifier form of the `in` evaluator.
IdentifierIn(token, m, d, sc) ==
    With(parseIdentifier(token.operands[1], d, sc), LAMBDA l :
    IF l.exc # "none" THEN [m |-> m, exc |-> l.exc, tok |-> token]
    ELSE With(InCan(token.operands[2].elements,
                    [i \in 0..(sc.count - 1) |-> FALSE], m, d, sc), LAMBDA can :
         IF can.exc # "none" THEN [m |-> m, exc |-> can.exc, tok |-> token]
         ELSE IF sc.count > 0 /\ l.key \notin DOMAIN m
         THEN [m |-> m, exc |-> "TypeError", tok |-> token]
         ELSE [m |-> [m EXCEPT ![l.key] =
                         [p \in DOMAIN m[l.key] |->
                             IF p < sc.count THEN m[l.key][p] /\ can.can[p]
                             ELSE m[l.key][p]]],
               exc |-> "none", tok |-> token]))

\* clueEvaluators[token.type][token.operator](token, m, p, sc)
clueEvaluators(token, m, d, sc) ==
    CASE token.type = "PositionalOperation" ->
             With(parseIdentifier(token.operands[1], d, sc), LAMBDA l :
             IF l.exc # "none" THEN [m |-> m, exc |-> l.exc, tok |-> token]
             ELSE With(parseIdentifier(token.operands[2], d, sc), LAMBDA r :
             IF r.exc # "none" THEN [m |-> m, exc |-> r.exc, tok |-> token]
             ELSE With(PositionalEval(token, m, l.key, r.key, sc), LAMBDA res :
                  [m |-> res.m, exc |-> res.exc, tok |-> token])))
      [] token.type \in {"LogicalBinaryOperation", "LogicalOperation"}
            /\ token.operator = "&" ->
             With(ParseEach(token.operands, [m |-> m, exc |-> "none"], d, sc),
                  LAMBDA a : [m |-> a.m, exc |-> a.exc,
                              tok |-> [token EXCEPT !.operands = a.toks]])
      [] token.type = "LogicalBinaryOperation" /\ token.operator = "|" ->
             evalBinaryLogical(token, m, d, sc)
      [] token.type = "LogicalOperation" /\ token.operator = "|" ->
             With(Snapshots(token.operands, m, d, sc), LAMBDA a :
             IF a.exc # "none"
             THEN [m |-> m, exc |-> a.exc,
                   tok |-> [token EXCEPT !.operands = a.toks]]
             ELSE [m |-> Intersect(m, a.ms, sc.count), exc |-> "none",
                   tok |-> [token EXCEPT !.operands = a.toks]])
      [] token.type = "InOperator" ->
             IF token.operands[1].type # "Identifier"
             THEN [m |-> m, exc |-> "none", tok |-> token]
             ELSE IF token.operands[2].type # "SetLiteral"
             THEN [m |-> m, exc |-> "InvalidPositionalOperand", tok |-> token]
             ELSE IdentifierIn(token, m, d, sc)
      [] token.type = "RelationalOperation" -> relationalEval(token, m, d, sc)

parseClue(clue, matrix, d, sc) ==
    IF clue.solved # "undefined" \/ ~HasEvaluator(clue)
    THEN [m |-> matrix, exc |-> "none", tok |-> clue]
    ELSE clueEvaluators(clue, matrix, d, sc)

(***************************************************************************)
(* solveOption and runIterations.  An IterationState is [matrix, clues].   *)
(***************************************************************************)
\* The bindings of $ for which a clue is visited in one pass over the clues.
Bindings(clue, count) ==
    IF count < 1 THEN {} ELSE IF clue.dollar THEN 1..count ELSE {1}

\* The body of iteration(state) before elimination, from clue i and
\* binding d on: every clue is propagated for its bindings in order.
RECURSIVE ParseFrom(_, _, _, _, _)
ParseFrom(state, exc, i, d, sc) ==
    IF exc # "none" \/ i > Len(state.clues) THEN [state |-> state, exc |-> exc]
    ELSE IF d \notin Bindings(state.clues[i], sc.count)
    THEN ParseFrom(state, exc, i + 1, 1, sc)
    ELSE With(parseClue(state.clues[i], state.matrix, d, sc), LAMBDA a :
         ParseFrom([matrix |-> a.m,
                    clues |-> [state.clues EXCEPT ![i] = a.tok]],
                   a.exc, i, d + 1, sc))

\* iteration(state): one pass over the clues, then subset elimination.
iteration(state, sc) ==
    With(ParseFrom(state, "none", 1, 1, sc), LAMBDA a :
    With(eliminateImpossibleOptions([m |-> a.state.matrix, exc |-> a.exc], sc),
         LAMBDA e : [state |-> [a.state EXCEPT !.matrix = e.m], exc |-> e.exc]))

\* The comparison with the snapshot taken before the pass.
Changed(matrix, snapshot, count) ==
    \E key \in DOMAIN matrix :
        \E i \in 0..(count - 1) : Cell(matrix[key], i) # Cell(snapshot[key], i)

\* The loop iterationLoop: passes are repeated until one changes nothing.
RECURSIVE Propagated(_, _)
Propagated(state, sc) ==
    With(iteration(state, sc), LAMBDA a :
    IF a.exc # "none" THEN a
    ELSE IF Changed(a.state.matrix, state.matrix, sc.count)
    THEN Propagated(a.state, sc)
    ELSE a)

\* The structural part of the validation for the categories from i on:
\* -1 for an invalid option, 0 otherwise.
RECURSIVE Structure(_, _, _)
Structure(matrix, i, sc) ==
    IF i > Len(sc.categories) THEN 0
    ELSE LET category == sc.categories[i]
             rows == [j \in DOMAIN category.items |->
                         matrix[Key(category.name, category.items[j])]]
         IN IF /\ category.name \notin sc.greatCategories
               /\ \E j \in DOMAIN rows : TrueCells(rows[j]) = {}
            THEN -1
            ELSE IF \E col \in 0..(sc.count - 1) :
                        \A j \in DOMAIN rows : ~Cell(rows[j], col)
            THEN -1
            ELSE Structure(matrix, i + 1, sc)

\* allSolved after the loop over the categories.
AllSolved(matrix, sc) ==
    \A i \in DOMAIN sc.categories :
        LET category == sc.categories[i]
            row(j) == matrix[Key(category.name, category.items[j])]
        IN /\ \A j \in DOMAIN category.items : Cardinality(TrueCells(row(j))) <= 1
           /\ \A j, h \in DOMAIN category.items :
                  j # h => TrueCells(row(j)) \cap TrueCells(row(h)) = {}

\* The loop over the clues: checkClue for every binding of every clue.
CluesHold(state, sc) ==
    \A i \in DOMAIN state.clues :
        \A d \in Bindings(state.clues[i], sc.count) :
            checkClue(state.clues[i], state.matrix, d, sc)

\* The value solveOption returns once the passes have settled.
\* A validation that does not look at the clues.
ValidationWithoutClues(state, sc) ==
    IF Structure(state.matrix, 1, sc) = -1 THEN -1
    ELSE IF AllSolved(state.matrix, sc) THEN 1 ELSE 0

Validation(state, sc) ==
    IF Structure(state.matrix, 1, sc) = -1 THEN -1
    ELSE IF ~CluesHold(state, sc) THEN -2
    ELSE IF AllSolved(state.matrix, sc) THEN 1 ELSE 0

solveOption(state, sc) ==
    With(Propagated(state, sc), LAMBDA a :
         [state |-> a.state, exc |-> a.exc,
          solved |-> IF a.exc # "none" THEN 0 ELSE Validation(a.state, sc)])

\* The number of items of the category possible in the column.
Options(matrix, category, col) ==
    Cardinality({j \in DOMAIN category.items :
                    Cell(matrix[Key(category.name, category.items[j])], col)})

\* The cell runIterations branches on: the first one, in category order and
\* then column order, with the fewest (but at least two) options.  With no
\* such cell minimumCategory stays '' and minimumCol -1.
MinimumCell(matrix, sc) ==
    LET cells == {c \in (DOMAIN sc.categories) \X (0..(sc.count - 1)) :
                     Options(matrix, sc.categories[c[1]], c[2]) > 1}
        before(c, e) == c[1] < e[1] \/ (c[1] = e[1] /\ c[2] < e[2])
        n(c) == Options(matrix, sc.categories[c[1]], c[2])
    IN IF cells = {} THEN [category |-> <<>>, col |-> -1]
       ELSE LET c == CHOOSE c \in cells :
                         \A e \in cells \ {c} : n(c) < n(e) \/ (n(c) = n(e) /\ before(c, e))
            IN [category |-> sc.categories[c[1]].name, col |-> c[2]]

\* A child that is the parent itself.
FixedNothing(state, cell, items, item) == state

\* state with the cell fixed to the item: every item of the category is
\* cleared in the column and the item is set.
Fixed(state, cell, items, item) ==
    [state EXCEPT !.matrix =
        [key \in DOMAIN state.matrix |->
            IF \E j \in DOMAIN items : key = Key(cell.category, items[j])
            THEN SetRow(state.matrix[key], cell.col, key = Key(cell.category, item))
            ELSE state.matrix[key]]]

\* A branching that follows only the first item possible in the cell.
ExpandFirst(state, cell, sc) ==
    With(CategoryItems(sc.categories, cell.category), LAMBDA items :
    With(SelectSeq(items, LAMBDA item :
             Cell(state.matrix[Key(cell.category, item)], cell.col)),
         LAMBDA possible :
             [exc |-> "none",
              states |-> << Fixed(state, cell, items, possible[1]) >>]))

\* The states pushed on newOptionStack for an undecided option: one per
\* item possible in the branching cell, with the cell fixed to that item.
ExpandAt(state, cell, sc) ==
    IF ~HasCategory(sc.categories, cell.category)
    THEN [exc |-> "TypeError", states |-> <<>>]
    ELSE With(CategoryItems(sc.categories, cell.category), LAMBDA items :
         With(SelectSeq(items, LAMBDA item :
                  Cell(state.matrix[Key(cell.category, item)], cell.col)),
              LAMBDA possible :
                  [exc |-> "none",
                   states |-> [j \in DOMAIN possible |->
                                  Fixed(state, cell, items, possible[j])]]))

Expand(state, sc) == ExpandAt(state, MinimumCell(state.matrix, sc), sc)

\* The body of the loop over optionStack in one wave, from state i on.  run
\* is [exc, newOptionStack, option, solutions].
RECURSIVE Wave(_, _, _, _)
Wave(optionStack, i, run, sc) ==
    IF run.exc # "none" \/ i > Len(optionStack) THEN run
    ELSE With(solveOption(optionStack[i], sc), LAMBDA a :
         With([run EXCEPT !.option = @ + 1], LAMBDA counted :
         IF a.exc # "none" THEN [counted EXCEPT !.exc = a.exc]
         ELSE IF a.solved = 1
         THEN Wave(optionStack, i + 1,
                   [counted EXCEPT !.solutions = Append(@, a.state.matrix)], sc)
         ELSE IF a.solved # 0 THEN Wave(optionStack, i + 1, counted, sc)
         ELSE With(Expand(a.state, sc), LAMBDA e :
              IF e.exc # "none" THEN [counted EXCEPT !.exc = e.exc]
              ELSE Wave(optionStack, i + 1,
                        [counted EXCEPT !.newOptionStack = @ \o e.states], sc))))

\* What solve returns, or throws.
Solved(exc, done, optionStack, iterations, run) ==
    [exc |-> exc, done |-> done, optionStack |-> optionStack,
     iterations |-> iterations, options |-> run.option,
     solutions |-> run.solutions]

\* runIterations from the head of the loop with stats.iteration = i.
RECURSIVE runIterations(_, _, _, _)
runIterations(optionStack, i, run, sc) ==
    IF i >= sc.maximumIterations
    THEN Solved("none", Len(optionStack) = 0, optionStack, i, run)
    ELSE IF Len(optionStack) = 0 THEN Solved("none", TRUE, <<>>, i, run)
    ELSE With(Wave(optionStack, 1, [run EXCEPT !.newOptionStack = <<>>], sc),
              LAMBDA w :
              IF w.exc # "none" THEN Solved(w.exc, FALSE, <<>>, i, w)
              ELSE runIterations(w.newOptionStack, i + 1, w, sc))

\* The SolverConfig solve assembles; categories is the caller's object, to
\* which generateInitialMatrix has added the positions.
Config(categories, greatCategories, names, maximumIterations) ==
    [categories |-> WithPositions(categories, names.count),
     greatCategories |-> greatCategories,
     nameKV |-> names.nameKV,
     itemOptions |-> names.itemOptions,
     count |-> names.count,
     combinations |-> generateAllCombinations(names.count),
     maximumIterations |-> maximumIterations]

NoStack == [defined |-> FALSE, states |-> <<>>]

\* A caller that forgets the option stack it was given.
ForgottenStack(states) == [defined |-> FALSE, states |-> <<>>]

SomeStack(states) == [defined |-> TRUE, states |-> states]

\* solve({categories, clues, maximumIterations, optionStack, greatCategories})
\* as a function of its arguments: what it returns, or what it throws.
solve(categories, clues, maximumIterations, inputOptionStack, greatCategories) ==
    With(shortNamesMap(categories, greatCategories), LAMBDA names :
    IF names.exc # "none"
    THEN Solved(names.exc, FALSE, <<>>, 0, [option |-> 0, solutions |-> <<>>])
    ELSE runIterations(
             IF inputOptionStack.defined THEN inputOptionStack.states
             ELSE << [matrix |-> InitialMatrix(names.itemOptions, names.count),
                      clues |-> clues] >>,
             0,
             [exc |-> "none", newOptionStack |-> <<>>, option |-> 0,
              solutions |-> <<>>],
             Config(categories, greatCategories, names, maximumIterations)))

(***************************************************************************)
(* The inputs: what compile() hands to solve.  A puzzle is [categories,    *)
(* greatCategories, clues].                                                *)
(***************************************************************************)
Id(c) == Identifier(<<c>>)

Position(c) == Identifier(<<"#", c>>)

\* e.1: an item whose name is a number can only be written with its category.
Age(c) == Identifier(<<"e", ".", c>>)

AgeOf(c) == NumericIdentifier(<<c>>, <<"e">>)

Pos(operator, left, right) == PositionalOperation(operator, left, right, -1)

Puzzle(categories, greatCategories, clues) ==
    [categories |-> categories, greatCategories |-> greatCategories,
     clues |-> clues]

\* n - A B
People == Category(<<"n">>, <<(<<"A">>), (<<"B">>)>>)

\* e - 1 2
Ages == Category(<<"e">>, <<(<<"1">>), (<<"2">>)>>)

\* e - 0 2
Scores == Category(<<"e">>, <<(<<"0">>), (<<"2">>)>>)

\* e - 1
Short == Category(<<"e">>, <<(<<"1">>)>>)

\* g* - X Y Z
Pets == Category(<<"g">>, <<(<<"X">>), (<<"Y">>), (<<"Z">>)>>)

\* n - A B C
Trio == Category(<<"n">>, <<(<<"A">>), (<<"B">>), (<<"C">>)>>)

Two == <<People, Ages>>

\* A = #1
First == Pos("=", Id("A"), Position("1"))

\* x:e == truths(x = A, x = A)
Twice(x) ==
    RelationalOperation("==", NumericIdentifier(x, <<"e">>),
        TruthsOperator(SetLiteral(<<Pos("=", Identifier(x), Id("A")),
                                    Pos("=", Identifier(x), Id("A"))>>)))

\* #1:e == truths(B:e == 1, B:e == 2)
Count ==
    RelationalOperation("==", NumericIdentifier(<<"#", "1">>, <<"e">>),
        TruthsOperator(SetLiteral(
            <<RelationalOperation("==", AgeOf("B"), NumericLiteral(1)),
              RelationalOperation("==", AgeOf("B"), NumericLiteral(2))>>)))

\* n - A B C ; g - X Y Z ; A = X
Ambiguous == Puzzle(<<Trio, Pets>>, {}, <<Pos("=", Id("A"), Id("X"))>>)

\* n - A B C ; A = #1 & B = #1
Contradiction ==
    Puzzle(<<Trio>>, {},
           <<LogicalBinaryOperation("&", First,
                                    Pos("=", Id("B"), Position("1")))>>)

Puzzles ==
    << \* 1: A = #1 ; e.1 = #1
       Puzzle(Two, {}, <<First, Pos("=", Age("1"), Position("1"))>>),
       \* 2: A -- B
       Puzzle(<<Trio>>, {}, <<Pos("--", Id("A"), Id("B"))>>),
       \* 3: A -- B & B - C
       Puzzle(<<Trio>>, {},
              <<LogicalBinaryOperation("&", Pos("--", Id("A"), Id("B")),
                                       Pos("-", Id("B"), Id("C")))>>),
       \* 4: !(A:e == 1)
       Puzzle(Two, {}, <<LogicalUnaryOperation(
                             RelationalOperation("==", AgeOf("A"),
                                                 NumericLiteral(1)))>>),
       \* 5: #1:e == truths(B:e == 1, B:e == 2)
       Puzzle(Two, {}, <<Count>>),
       \* 6: A = #1 ; $:e == truths($ = A, $ = A)
       Puzzle(<<People, Scores>>, {}, <<First, Twice(Dollar)>>),
       \* 7: A = #3
       Puzzle(Two, {}, <<Pos("=", Id("A"), Position("3"))>>),
       \* 8: Q = #1
       Puzzle(Two, {}, <<Pos("=", Id("Q"), Position("1"))>>),
       \* 9: no categories
       Puzzle(<<>>, {}, <<>>),
       \* 10: two strict categories of different sizes
       Puzzle(<<People, Short>>, {}, <<>>),
       \* 11: the same beside a great category
       Puzzle(<<People, Pets, Short>>, {<<"g">>}, <<First>>),
       \* 12: a great category; A = X ; A = #1
       Puzzle(<<People, Pets>>, {<<"g">>}, <<Pos("=", Id("A"), Id("X")), First>>),
       \* 13: A = #1 | A = #2
       Puzzle(<<People>>, {},
              <<LogicalBinaryOperation("|", First,
                                       Pos("=", Id("A"), Position("2")))>>),
       \* 14: A = #1 ; A:e > 1
       Puzzle(Two, {}, <<First, RelationalOperation(">", AgeOf("A"),
                                                    NumericLiteral(1))>>),
       \* 15: A in (#2, #2) ; $:e >= 1
       Puzzle(Two, {}, <<InOperator(Id("A"), SetLiteral(<<Position("2"),
                                                          Position("2")>>)),
                         RelationalOperation(">=", AgeOf(Dollar),
                                             NumericLiteral(1))>>),
       \* 16: !(A = #1)
       Puzzle(<<People>>, {}, <<LogicalUnaryOperation(First)>>),
       \* 17: ||(A = #2, B = #2)
       Puzzle(<<People>>, {},
              <<LogicalOperation("|",
                    SetLiteral(<<Pos("=", Id("A"), Position("2")),
                                 Pos("=", Id("B"), Position("2"))>>))>>),
       \* 18: !(Q = #1)
       Puzzle(<<People>>, {},
              <<LogicalUnaryOperation(Pos("=", Id("Q"), Position("1")))>>),
       \* 19: #1:e == truths(A = #1, B = #1)
       Puzzle(Two, {},
              <<RelationalOperation("==",
                    NumericIdentifier(<<"#", "1">>, <<"e">>),
                    TruthsOperator(SetLiteral(
                        <<First, Pos("=", Id("B"), Position("1"))>>)))>>),
       \* 20: A -3- B, a distance beyond the number of positions
       Puzzle(<<People>>, {},
              <<PositionalOperation("-", Id("A"), Id("B"), 3)>>),
       \* 21: two strict categories of three items, A = X
       Ambiguous,
       \* 22: two items forced to the same position
       Contradiction,
       \* 23: the item A in three categories, A = #1
       Puzzle(<<People,
                Category(<<"m">>, <<(<<"A">>), (<<"C">>)>>),
                Category(<<"k">>, <<(<<"A">>), (<<"D">>)>>)>>, {}, <<First>>),
       \* 24: A -2- C
       Puzzle(<<Trio>>, {},
              <<PositionalOperation("-", Id("A"), Id("C"), 2)>>),
       \* 25: A = #1 | A = #2 on three positions
       Puzzle(<<Trio>>, {},
              <<LogicalBinaryOperation("|", First,
                                       Pos("=", Id("A"), Position("2")))>>),
       \* 26: $:e != truths($:f == 3) ; e.0 = #1 ; f.3 = #1
       Puzzle(<<Category(<<"e">>, <<(<<"0">>), (<<"5">>)>>),
                Category(<<"f">>, <<(<<"3">>), (<<"4">>)>>)>>, {},
              <<RelationalOperation("!=",
                    NumericIdentifier(Dollar, <<"e">>),
                    TruthsOperator(SetLiteral(
                        <<RelationalOperation("==",
                              NumericIdentifier(Dollar, <<"f">>),
                              NumericLiteral(3))>>))),
                Pos("=", Age("0"), Position("1")),
                Pos("=", Identifier(<<"f", ".", "3">>), Position("1"))>>),
       \* 27: n - A B ; f - 3 4 ; A:f == 7 / 2
       Puzzle(<<People, Category(<<"f">>, <<(<<"3">>), (<<"4">>)>>)>>, {},
              <<RelationalOperation("==",
                    NumericIdentifier(<<"A">>, <<"f">>),
                    ArithmeticBinaryOperation("/", NumericLiteral(7),
                                              NumericLiteral(2)))>>),
       \* 28: n - A B ; g* - X Y Z ; X - Y ; X = Y
       Puzzle(<<People, Pets>>, {<<"g">>},
              <<Pos("-", Id("X"), Id("Y")), Pos("=", Id("X"), Id("Y"))>>),
       \* 29: n - A B ; g* - X Y Z ; Y = #1
       Puzzle(<<People, Pets>>, {<<"g">>},
              <<Pos("=", Id("Y"), Position("1"))>>) >>

(***************************************************************************)
(* The solver as a state machine: the caller holds the function returned   *)
(* by iterativeSolver and calls it with a budget; every call runs solve,   *)
(* one step of which is one action.                                        *)
(***************************************************************************)
MaxIterations == 3

MaxCalls == 2

VARIABLES puzzle, categories, inputOptionStack, maximumIterations, sc, stats,
          optionStack, newOptionStack, at, cursor, snapshot, solved, done,
          pc, error, calls

vars == <<puzzle, categories, inputOptionStack, maximumIterations, sc, stats,
          optionStack, newOptionStack, at, cursor, snapshot, solved, done,
          pc, error, calls>>

NoConfig ==
    [categories |-> <<>>, greatCategories |-> {}, nameKV |-> <<>>,
     itemOptions |-> <<>>, count |-> 0, combinations |-> <<>>,
     maximumIterations |-> 0]

NoStats == [iteration |-> 0, option |-> 0, solutions |-> <<>>]

NoCursor == [i |-> 1, d |-> 1]

Init ==
    /\ puzzle \in DOMAIN Puzzles
    /\ categories = Puzzles[puzzle].categories
    /\ inputOptionStack = NoStack
    /\ maximumIterations = 0
    /\ sc = NoConfig
    /\ stats = NoStats
    /\ optionStack = <<>>
    /\ newOptionStack = <<>>
    /\ at = 1
    /\ cursor = NoCursor
    /\ snapshot = <<>>
    /\ solved = 0
    /\ done = FALSE
    /\ pc = "idle"
    /\ error = "none"
    /\ calls = <<>>

\* An exception leaves solve; nothing is returned and nothing runs after it.
Throw(exc) ==
    /\ pc' = "failed"
    /\ error' = exc

\* The first clue and binding at or after (i, d) that a pass visits.
RECURSIVE Seek(_, _, _, _)
Seek(clues, i, d, count) ==
    IF i > Len(clues) THEN [i |-> i, d |-> 1]
    ELSE IF d \in Bindings(clues[i], count) THEN [i |-> i, d |-> d]
    ELSE Seek(clues, i + 1, 1, count)

\* The function iterativeSolver returns, called with a budget: it calls
\* solve with the compiled puzzle and the option stack it has kept.
iterativeSolver(iterations) ==
    /\ pc = "idle"
    /\ Len(calls) < MaxCalls
    /\ maximumIterations' = iterations
    /\ pc' = "solve"
    /\ UNCHANGED <<puzzle, categories, inputOptionStack, sc, stats, optionStack,
                   newOptionStack, at, cursor, snapshot, solved, done, error,
                   calls>>

\* solve, line 75: the validation of the categories.
ShortNamesMap ==
    /\ pc = "solve"
    /\ \E names \in {shortNamesMap(categories, Puzzles[puzzle].greatCategories)} :
          IF names.exc # "none"
          THEN /\ Throw(names.exc)
               /\ sc' = NoConfig
          ELSE /\ pc' = "matrix"
               /\ error' = error
               /\ sc' = [NoConfig EXCEPT !.nameKV = names.nameKV,
                                         !.itemOptions = names.itemOptions,
                                         !.count = names.count]
    /\ UNCHANGED <<puzzle, categories, inputOptionStack, maximumIterations,
                   stats, optionStack, newOptionStack, at, cursor, snapshot,
                   solved, done, calls>>

\* solve, lines 76-96 and 108-110: the combinations, the initial matrix (which
\* adds the positions to the caller's categories), the configuration and the
\* first option stack.
GenerateInitialMatrix ==
    /\ pc = "matrix"
    /\ sc' = Config(categories, Puzzles[puzzle].greatCategories, sc,
                    maximumIterations)
    /\ categories' = sc'.categories
    /\ stats' = NoStats
    /\ optionStack' =
           IF inputOptionStack.defined THEN inputOptionStack.states
           ELSE << [matrix |-> InitialMatrix(sc.itemOptions, sc.count),
                    clues |-> Puzzles[puzzle].clues] >>
    /\ newOptionStack' = <<>>
    /\ pc' = "wave"
    /\ UNCHANGED <<puzzle, inputOptionStack, maximumIterations, at, cursor,
                   snapshot, solved, done, error, calls>>

\* The option being solved: the element of optionStack the loop is at.  It
\* is changed in place.
State == optionStack[at]

\* A loop head that reports done whenever the budget is exhausted.
RunIterationsDone ==
    /\ pc = "wave"
    /\ IF stats.iteration >= sc.maximumIterations \/ Len(optionStack) = 0
       THEN /\ done' = TRUE
            /\ pc' = "return"
       ELSE /\ done' = done
            /\ pc' = "option"
    /\ at' = 1
    /\ UNCHANGED <<puzzle, categories, inputOptionStack, maximumIterations, sc,
                   stats, optionStack, newOptionStack, cursor, snapshot,
                   solved, error, calls>>

\* runIterations, lines 111-113 and 149: the head of the loop over the waves.
RunIterations ==
    /\ pc = "wave"
    /\ IF stats.iteration >= sc.maximumIterations
       THEN /\ done' = (Len(optionStack) = 0)
            /\ optionStack' = optionStack
            /\ pc' = "return"
       ELSE IF Len(optionStack) = 0
       THEN /\ done' = TRUE
            /\ optionStack' = <<>>
            /\ pc' = "return"
       ELSE /\ done' = done
            /\ optionStack' = optionStack
            /\ pc' = "option"
    /\ at' = 1
    /\ UNCHANGED <<puzzle, categories, inputOptionStack, maximumIterations, sc,
                   stats, newOptionStack, cursor, snapshot, solved, error,
                   calls>>

\* Lines 114-115 and 155: the option is counted and solveOption takes the
\* snapshot for its first pass.
SolveOption ==
    /\ pc = "option"
    /\ stats' = [stats EXCEPT !.option = @ + 1]
    /\ snapshot' = State.matrix
    /\ cursor' = Seek(State.clues, 1, 1, sc.count)
    /\ pc' = IF cursor'.i > Len(State.clues) THEN "eliminate" ELSE "clue"
    /\ UNCHANGED <<puzzle, categories, inputOptionStack, maximumIterations, sc,
                   optionStack, newOptionStack, at, solved, done, error, calls>>

\* iteration, lines 196-201: parseClue on one clue under one binding of $.
ParseClue ==
    /\ pc = "clue"
    /\ \E a \in {parseClue(State.clues[cursor.i], State.matrix, cursor.d, sc)},
          next \in {Seek(State.clues, cursor.i, cursor.d + 1, sc.count)} :
          IF a.exc # "none"
          THEN /\ Throw(a.exc)
               /\ UNCHANGED <<optionStack, cursor>>
          ELSE /\ optionStack' =
                      [optionStack EXCEPT ![at].matrix = a.m,
                                          ![at].clues[cursor.i] = a.tok]
               /\ cursor' = next
               /\ pc' = IF next.i > Len(State.clues) THEN "eliminate" ELSE "clue"
               /\ error' = error
    /\ UNCHANGED <<puzzle, categories, inputOptionStack, maximumIterations, sc,
                   stats, newOptionStack, at, snapshot, solved, done, calls>>

\* iteration, line 202, and solveOption, lines 155-162: subset elimination
\* ends the pass; a pass that changed the matrix is followed by another.
EliminateImpossibleOptions ==
    /\ pc = "eliminate"
    /\ \E e \in {eliminateImpossibleOptions([m |-> State.matrix, exc |-> "none"], sc)},
          first \in {Seek(State.clues, 1, 1, sc.count)} :
          IF e.exc # "none"
          THEN /\ Throw(e.exc)
               /\ UNCHANGED <<optionStack, cursor, snapshot>>
          ELSE /\ optionStack' = [optionStack EXCEPT ![at].matrix = e.m]
               /\ error' = error
               /\ IF Changed(e.m, snapshot, sc.count)
                  THEN /\ snapshot' = e.m
                       /\ cursor' = first
                       /\ pc' = IF first.i > Len(State.clues)
                                THEN "eliminate" ELSE "clue"
                  ELSE /\ pc' = "validate"
                       /\ UNCHANGED <<cursor, snapshot>>
    /\ UNCHANGED <<puzzle, categories, inputOptionStack, maximumIterations, sc,
                   stats, newOptionStack, at, solved, done, calls>>

\* The loop over optionStack moves on to the next option, or ends the wave.
AfterOption ==
    IF at < Len(optionStack)
    THEN /\ at' = at + 1
         /\ pc' = "option"
    ELSE /\ at' = at
         /\ pc' = "waveEnd"

\* solveOption, lines 165-192: the validation of the settled option; a
\* solution is recorded, and an option that is not undecided is dropped.
Validate ==
    /\ pc = "validate"
    /\ solved' = Validation(State, sc)
    /\ stats' = IF solved' = 1
                THEN [stats EXCEPT !.solutions = Append(@, State.matrix)]
                ELSE stats
    /\ IF solved' = 0
       THEN /\ pc' = "branch"
            /\ at' = at
       ELSE AfterOption
    /\ UNCHANGED <<puzzle, categories, inputOptionStack, maximumIterations, sc,
                   optionStack, newOptionStack, cursor, snapshot, done, error,
                   calls>>

\* runIterations, lines 118-144: an undecided option is split on its
\* branching cell.
Branch ==
    /\ pc = "branch"
    /\ \E e \in {Expand(State, sc)} :
          IF e.exc # "none"
          THEN /\ Throw(e.exc)
               /\ UNCHANGED <<newOptionStack, at>>
          ELSE /\ newOptionStack' = newOptionStack \o e.states
               /\ error' = error
               /\ AfterOption
    /\ UNCHANGED <<puzzle, categories, inputOptionStack, maximumIterations, sc,
                   stats, optionStack, cursor, snapshot, solved, done, calls>>

\* A wave end that queues the states of the wave again beside their children.
NextWaveRequeue ==
    /\ pc = "waveEnd"
    /\ optionStack' = optionStack \o newOptionStack
    /\ newOptionStack' = <<>>
    /\ stats' = [stats EXCEPT !.iteration = @ + 1]
    /\ pc' = "wave"
    /\ UNCHANGED <<puzzle, categories, inputOptionStack, maximumIterations, sc,
                   at, cursor, snapshot, solved, done, error, calls>>

\* runIterations, lines 146-147 and the increment of the loop.
NextWave ==
    /\ pc = "waveEnd"
    /\ optionStack' = newOptionStack
    /\ newOptionStack' = <<>>
    /\ stats' = [stats EXCEPT !.iteration = @ + 1]
    /\ pc' = "wave"
    /\ UNCHANGED <<puzzle, categories, inputOptionStack, maximumIterations, sc,
                   at, cursor, snapshot, solved, done, error, calls>>

\* solve, lines 98-105, and iterativeSolver, lines 47-48: the result is
\* returned and the caller keeps its option stack for the next call.
Return ==
    /\ pc = "return"
    /\ calls' = Append(calls,
                       [maximumIterations |-> maximumIterations,
                        done |-> done,
                        optionStack |-> optionStack,
                        iterations |-> stats.iteration,
                        options |-> stats.option,
                        solutions |-> stats.solutions])
    /\ inputOptionStack' = SomeStack(optionStack)
    /\ pc' = "idle"
    /\ UNCHANGED <<puzzle, categories, maximumIterations, sc, stats,
                   optionStack, newOptionStack, at, cursor, snapshot, solved,
                   done, error>>

Next ==
    \/ \E iterations \in 0..MaxIterations : iterativeSolver(iterations)
    \/ ShortNamesMap
    \/ GenerateInitialMatrix
    \/ RunIterations
    \/ SolveOption
    \/ ParseClue
    \/ EliminateImpossibleOptions
    \/ Validate
    \/ Branch
    \/ NextWave
    \/ Return

\* The puzzle of two strict categories of three items with the clue A = X.
S2 == CHOOSE p \in DOMAIN Puzzles : Puzzles[p] = Ambiguous

\* Every puzzle but S2, whose search takes more waves than MaxIterations
\* and MaxCalls allow and which is run on its own below.
InitFamily == Init /\ puzzle # S2

Spec == InitFamily /\ [][Next]_vars

\* The sum of the budgets of the calls.
RECURSIVE Budget(_)
Budget(cs) ==
    IF cs = <<>> THEN 0 ELSE Head(cs).maximumIterations + Budget(Tail(cs))

\* The S2 puzzle, called with budgets that sum to S2Budget at most.
S2Budget == 7

InitS2 == Init /\ puzzle = S2

NextS2 ==
    \/ \E iterations \in 0..(S2Budget - Budget(calls)) :
           iterativeSolver(iterations)
    \/ ShortNamesMap
    \/ GenerateInitialMatrix
    \/ RunIterations
    \/ SolveOption
    \/ ParseClue
    \/ EliminateImpossibleOptions
    \/ Validate
    \/ Branch
    \/ NextWave
    \/ Return

SpecS2 == InitS2 /\ [][NextS2]_vars

\* The caller that goes on calling with the largest budget: every call is
\* given MaxIterations waves, and the solver and the caller keep stepping.
NextLive ==
    \/ iterativeSolver(MaxIterations)
    \/ ShortNamesMap
    \/ GenerateInitialMatrix
    \/ RunIterations
    \/ SolveOption
    \/ ParseClue
    \/ EliminateImpossibleOptions
    \/ Validate
    \/ Branch
    \/ NextWave
    \/ Return

\* The positions of the solver and of its caller.
Positions ==
    {"idle", "solve", "matrix", "wave", "option", "clue", "eliminate",
     "validate", "branch", "waveEnd", "return", "failed"}

\* solve has thrown, or the caller has made its last call.
Stopped == pc = "failed" \/ (pc = "idle" /\ Len(calls) >= MaxCalls)

\* The program moves on: it is sequential code, so unless it has stopped its
\* position changes after finitely many steps.  Every state that is not
\* Stopped has a step of NextLive.
Advance == ~Stopped /\ pc' \in Positions

SpecLive == InitFamily /\ [][NextLive]_vars /\ WF_pc(Advance)

(***************************************************************************)
(* The meaning of a puzzle, stated without the search: the fully           *)
(* determined valid matrices and the truth of the clues on them.           *)
(***************************************************************************)
\* Every cell set in `newer` is set in `older`.
Narrows(newer, older) ==
    \A key \in DOMAIN newer :
        \A i \in DOMAIN newer[key] :
            newer[key][i] => (key \in DOMAIN older /\ Cell(older[key], i))

\* The cells of the N positions, as a matrix of rows of length N.
Trim(matrix, count) ==
    [key \in DOMAIN matrix |-> [p \in 0..(count - 1) |-> Cell(matrix[key], p)]]

\* One item of a category at every position, no item at two positions.
Placements(items, count) ==
    {f \in [0..(count - 1) -> DOMAIN items] :
        \A p, q \in 0..(count - 1) : p # q => f[p] # f[q]}

\* A placement for every category; position i stands at position i.
Arrangements(cfg) ==
    {a \in [DOMAIN cfg.categories ->
               UNION {Placements(cfg.categories[i].items, cfg.count) :
                          i \in DOMAIN cfg.categories}] :
        \A i \in DOMAIN cfg.categories :
            /\ \A p \in 0..(cfg.count - 1) :
                   a[i][p] \in DOMAIN cfg.categories[i].items
            /\ cfg.categories[i].name = Hash =>
                   \A p \in 0..(cfg.count - 1) : a[i][p] = p + 1}

\* The row keys of the categories.
Keys(cfg) ==
    UNION {{Key(cfg.categories[i].name, cfg.categories[i].items[j]) :
                j \in DOMAIN cfg.categories[i].items} :
               i \in DOMAIN cfg.categories}

\* The matrix of an arrangement.
Arranged(a, cfg) ==
    [key \in Keys(cfg) |->
        [p \in 0..(cfg.count - 1) |->
            \E i \in DOMAIN cfg.categories :
                key = Key(cfg.categories[i].name,
                          cfg.categories[i].items[a[i][p]])]]

\* The fully determined valid matrices: every position holds exactly one
\* item of each category and no item stands at two positions.
Determined(cfg) == {Arranged(a, cfg) : a \in Arrangements(cfg)}

\* The fully determined valid matrices that narrow `matrix`.
FullNarrowings(matrix, cfg) ==
    {full \in Determined(cfg) : Narrows(full, matrix)}

\* The clue is true on a fully determined matrix under binding d: its
\* checker returns true, and not because an operand could not be evaluated.
TrueOn(clue, full, d, cfg) ==
    IF ~HasChecker(clue) THEN TRUE
    ELSE With(clueCheckers(clue, full, d, cfg), LAMBDA c :
         c.exc = "none" /\ c.v)

\* The clue is true on the matrix under every binding of $.
Holds(clue, full, cfg) ==
    \A d \in Bindings(clue, cfg.count) : TrueOn(clue, full, d, cfg)

\* The consistent assignments of the puzzle: the fully determined valid
\* matrices on which every clue, as compiled, is true.
Consistent(clues, cfg) ==
    {full \in Determined(cfg) :
        \A i \in DOMAIN clues : Holds(clues[i], full, cfg)}

\* The solutions reported by the calls so far, in order.
RECURSIVE Reported(_)
Reported(cs) ==
    IF cs = <<>> THEN <<>>
    ELSE Reported(SubSeq(cs, 1, Len(cs) - 1)) \o cs[Len(cs)].solutions

(***************************************************************************)
(* Exhaustiveness.                                                         *)
(***************************************************************************)
\* C1: when the last call of a chain returns done, the solutions reported
\* over the chain contain every fully determined valid matrix on which every
\* clue checks true.
C1_Exhaustive ==
    (pc = "idle" /\ calls # <<>> /\ calls[Len(calls)].done) =>
        \A full \in Consistent(Puzzles[puzzle].clues, sc) :
            \E s \in DOMAIN Reported(calls) :
                Trim(Reported(calls)[s], sc.count) = full

(***************************************************************************)
(* The solutions are valid.                                                *)
(***************************************************************************)
\* The rows of a category together hold every column exactly once, each row
\* exactly once (strict), or each row at most once (great).
ValidCategory(matrix, category, cfg) ==
    LET rows == [j \in DOMAIN category.items |->
                    matrix[Key(category.name, category.items[j])]]
    IN IF category.name \in cfg.greatCategories
       THEN \A j \in DOMAIN rows : Cardinality(TrueCells(rows[j])) <= 1
       ELSE /\ \A j \in DOMAIN rows : Cardinality(TrueCells(rows[j])) = 1
            /\ \A col \in 0..(cfg.count - 1) :
                   Cardinality({j \in DOMAIN rows : Cell(rows[j], col)}) = 1

ValidSolution(matrix, clues, cfg) ==
    /\ \A i \in DOMAIN cfg.categories :
           ValidCategory(matrix, cfg.categories[i], cfg)
    /\ \A i \in DOMAIN clues :
           \A d \in (IF clues[i].dollar THEN 1..cfg.count ELSE {1}) :
               checkClue(clues[i], matrix, d, cfg)

\* C2: every matrix that solve puts in solutions has each strict-category
\* row true at exactly one cell, each column true at exactly one row of each
\* strict category, each great-category row true at at most one cell, and
\* checkClue true for every clue of its branch under every binding of $.
C2_SolutionsValid ==
    [][(stats'.solutions # stats.solutions /\ stats'.solutions # <<>>) =>
          /\ stats'.solutions = Append(stats.solutions, State.matrix)
          /\ ValidSolution(State.matrix, State.clues, sc)]_vars

\* A solution has been put in solutions.
C2_Witness == pc = "option" /\ stats.solutions # <<>>

(***************************************************************************)
(* Monotone narrowing.                                                     *)
(***************************************************************************)
\* C3: every propagation step (parseClue on one clue under one binding of $)
\* and every subset-elimination step of a branch leaves no cell true that
\* was false before it.
C3_MonotoneNarrowing ==
    [][(pc \in {"clue", "eliminate"}) =>
          Narrows(optionStack'[at].matrix, optionStack[at].matrix)]_vars

\* A pass whose propagation steps have cleared cells has reached subset
\* elimination.
C3_Witness ==
    /\ pc = "eliminate"
    /\ \E key \in DOMAIN snapshot :
           \E i \in DOMAIN snapshot[key] :
               snapshot[key][i] /\ ~Cell(State.matrix[key], i)

(***************************************************************************)
(* Soundness of propagation and conservativeness of the checker.           *)
(***************************************************************************)
\* C4: a propagation step clears no cell that is set in a fully determined
\* valid matrix which narrows the matrix before the step and on which the
\* clue, under the binding of the step, is true.
C4_PropagationSound ==
    [][pc = "clue" =>
          \A full \in FullNarrowings(State.matrix, sc) :
              TrueOn(Puzzles[puzzle].clues[cursor.i], full, cursor.d, sc)
                  => Narrows(full, optionStack'[at].matrix)]_vars

\* C5: when checkClue is false for a clue on the matrix of a settled option,
\* the clue is false on every fully determined valid matrix that narrows it.
C5_CheckerConservative ==
    pc = "validate" =>
        \A i \in DOMAIN State.clues :
            \A d \in Bindings(State.clues[i], sc.count) :
                ~checkClue(State.clues[i], State.matrix, d, sc) =>
                    \A full \in FullNarrowings(State.matrix, sc) :
                        ~TrueOn(Puzzles[puzzle].clues[i], full, d, sc)

(***************************************************************************)
(* Resumption and the budget.                                              *)
(***************************************************************************)
\* C6: a call with budget k1 followed by calls resumed with the stack
\* returned before them yields, as the concatenation of the solutions lists,
\* the solutions of one call on the puzzle with the sum of the budgets, and
\* the same done flag and final optionStack.
C6_RoundTrip ==
    (pc = "idle" /\ Len(calls) >= 2) =>
        \E one \in {solve(Puzzles[puzzle].categories, Puzzles[puzzle].clues,
                          Budget(calls), NoStack,
                          Puzzles[puzzle].greatCategories)} :
            /\ one.exc = "none"
            /\ one.solutions = Reported(calls)
            /\ one.done = calls[Len(calls)].done
            /\ one.optionStack = calls[Len(calls)].optionStack

\* A first call that found a solution and left branches open, resumed by a
\* call that found more and ended the search.
C6_Witness ==
    /\ pc = "idle"
    /\ Len(calls) = 2
    /\ ~calls[1].done
    /\ calls[1].solutions # <<>>
    /\ calls[1].optionStack # <<>>
    /\ calls[2].solutions # <<>>
    /\ calls[2].done

\* C7: solve returns after at most maximumIterations waves with done true
\* exactly when the returned optionStack is empty; when the budget is
\* exhausted with branches open it returns, with done false, the open
\* branches and the solutions found so far.
C7_NormalReturn ==
    [][pc = "wave" =>
          /\ stats.iteration <= sc.maximumIterations
          /\ pc' = "return" =>
                 /\ done' = (optionStack' = <<>>)
                 /\ stats' = stats
                 /\ optionStack # <<>> => optionStack' = optionStack
          /\ stats.iteration = sc.maximumIterations => pc' = "return"
          /\ (stats.iteration = sc.maximumIterations /\ optionStack # <<>>) =>
                 ~done']_vars

\* The budget is exhausted with branches open and a solution found.
C7_Witness ==
    /\ pc = "return"
    /\ ~done
    /\ optionStack # <<>>
    /\ stats.solutions # <<>>
    /\ stats.iteration = sc.maximumIterations

(***************************************************************************)
(* Dynamic expansion.                                                      *)
(***************************************************************************)
\* The expression with $ replaced by #d.
RECURSIVE Instantiate(_, _)
Instantiate(exp, d) ==
    CASE exp.type \in {"Identifier", "NumericIdentifier"} ->
             IF exp.symbol = Dollar
             THEN [exp EXCEPT !.symbol = Hash \o IntStr(d), !.dollar = FALSE]
             ELSE exp
      [] exp.type = "NumericLiteral" -> exp
      [] exp.type = "SetLiteral" ->
             [exp EXCEPT !.dollar = FALSE,
                         !.elements = [i \in DOMAIN exp.elements |->
                                          Instantiate(exp.elements[i], d)]]
      [] exp.type = "RangeLiteral" ->
             [exp EXCEPT !.dollar = FALSE,
                         !.start = Instantiate(exp.start, d),
                         !.end = Instantiate(exp.end, d)]
      [] OTHER ->
             [exp EXCEPT !.dollar = FALSE,
                         !.operands = [i \in DOMAIN exp.operands |->
                                          Instantiate(exp.operands[i], d)]]

\* The clues with every clue that contains $ replaced by its instantiations
\* for $ = #1, ..., #N, in that order.
RECURSIVE Expansion(_, _)
Expansion(clues, count) ==
    IF clues = <<>> THEN <<>>
    ELSE (IF Head(clues).dollar
          THEN [d \in 1..count |-> Instantiate(Head(clues), d)]
          ELSE <<Head(clues)>>)
         \o Expansion(Tail(clues), count)

\* C8: solving a puzzle with a clue that contains $ gives the solutions (and
\* the done flag) of solving the puzzle in which that clue is replaced by
\* its N instantiations.
C8_DynamicExpansion ==
    (pc = "idle" /\ Len(calls) = 1) =>
        \E one \in {solve(Puzzles[puzzle].categories,
                          Expansion(Puzzles[puzzle].clues, sc.count),
                          calls[1].maximumIterations, NoStack,
                          Puzzles[puzzle].greatCategories)} :
            /\ one.exc = "none"
            /\ one.done = calls[1].done
            /\ one.solutions = calls[1].solutions

(***************************************************************************)
(* Initial validation and identifier resolution.                           *)
(***************************************************************************)
\* The strict categories of the puzzle.
Strict(p) ==
    {i \in DOMAIN Puzzles[p].categories :
        Puzzles[p].categories[i].name \notin Puzzles[p].greatCategories}

\* C9: solve fails with NoCategories when there is no category and with
\* MismatchedCategorySize when two strict categories differ in length;
\* great categories are exempt; the failure comes before any matrix is built
\* and before any wave is processed.
C9_InitialValidation ==
    [][(pc = "solve" /\ calls = <<>>) =>
          /\ Puzzles[puzzle].categories = <<>> =>
                 (pc' = "failed" /\ error' = "NoCategories")
          /\ (\E i, j \in Strict(puzzle) :
                 Len(Puzzles[puzzle].categories[i].items)
                     # Len(Puzzles[puzzle].categories[j].items)) =>
                 (pc' = "failed" /\ error' = "MismatchedCategorySize")
          /\ (/\ Strict(puzzle) # {}
              /\ \A i, j \in Strict(puzzle) :
                     Len(Puzzles[puzzle].categories[i].items)
                         = Len(Puzzles[puzzle].categories[j].items)) =>
                 pc' = "matrix"
          /\ pc' = "failed" =>
                 /\ categories' = Puzzles[puzzle].categories
                 /\ optionStack' = <<>>
                 /\ stats' = NoStats
                 /\ sc' = NoConfig]_vars

\* solve has failed on strict categories of different sizes beside a great
\* category.
C9_Witness ==
    /\ pc = "failed"
    /\ error = "MismatchedCategorySize"
    /\ Puzzles[puzzle].greatCategories # {}
    /\ optionStack = <<>>

\* The identifiers of an expression.
RECURSIVE Identifiers(_)
Identifiers(exp) ==
    CASE exp.type \in {"Identifier", "NumericIdentifier"} -> {exp}
      [] exp.type = "NumericLiteral" -> {}
      [] exp.type = "SetLiteral" ->
             UNION {Identifiers(exp.elements[i]) : i \in DOMAIN exp.elements}
      [] exp.type = "RangeLiteral" ->
             Identifiers(exp.start) \cup Identifiers(exp.end)
      [] OTHER ->
             UNION {Identifiers(exp.operands[i]) : i \in DOMAIN exp.operands}

\* C10: for every identifier of a clue and every binding d in 1..N the
\* resolver returns a key that is a row of the matrix or fails with
\* UnknownIdentifier.
C10_Resolution ==
    pc = "clue" =>
        \A id \in Identifiers(State.clues[cursor.i]) :
            \A d \in 1..sc.count :
                \E r \in {parseIdentifier(id, d, sc)} :
                    \/ r.exc = "UnknownIdentifier"
                    \/ r.exc = "none" /\ r.key \in DOMAIN State.matrix

(***************************************************************************)
(* Errors.                                                                 *)
(***************************************************************************)
\* The errors of a malformed puzzle.
Permanent == {"UnknownIdentifier", "UnknownCategory", "SetRequiresArithmetic"}

\* The validation of the option reaches the check of clue i under binding
\* d: the structure is valid and every check before it returned true.
Reaches(i, d) ==
    /\ Structure(State.matrix, 1, sc) # -1
    /\ d \in Bindings(State.clues[i], sc.count)
    /\ \A j \in 1..i :
           \A e \in Bindings(State.clues[j], sc.count) :
               (j < i \/ e < d) => checkClue(State.clues[j], State.matrix, e, sc)

\* C11: when evaluating a clue raises UnknownIdentifier, UnknownCategory or
\* SetRequiresArithmetic, solve fails with that error, also when the error
\* is raised while the clue is being checked.
C11_PermanentErrorsFatal ==
    [][pc = "validate" =>
          \A i \in DOMAIN State.clues :
              \A d \in 1..sc.count :
                  (/\ Reaches(i, d)
                   /\ State.clues[i].solved = "undefined"
                   /\ HasChecker(State.clues[i])
                   /\ clueCheckers(State.clues[i], State.matrix, d, sc).exc
                          \in Permanent) =>
                      (/\ pc' = "failed"
                       /\ error' = clueCheckers(State.clues[i], State.matrix,
                                                d, sc).exc)]_vars

\* C12: the two sentinels of an under-determined row never leave the
\* checker, so solve never fails with a sentinel value.
C12_SentinelsCaught ==
    pc = "failed" => error \notin {"throw true", "throw false"}

(***************************************************************************)
(* The shape of the matrix.                                                *)
(***************************************************************************)
\* The matrices of the branches of the search: those of the current wave
\* and those made for the next.
Matrices ==
    {optionStack[i].matrix : i \in DOMAIN optionStack}
        \cup {newOptionStack[i].matrix : i \in DOMAIN newOptionStack}

\* C13: in every matrix of the search each position row #.i has exactly one
\* true cell, at column i - 1.
C13_PositionRows ==
    \A matrix \in Matrices :
        \A i \in 1..sc.count :
            TrueCells(matrix[Key(Hash, IntStr(i))]) = {i - 1}

\* C14: every matrix of the search has the row keys of the initial matrix,
\* and every row has exactly the cells 0 .. count - 1.
C14_DimensionsStable ==
    \A matrix \in Matrices :
        /\ DOMAIN matrix = DOMAIN InitialMatrix(sc.itemOptions, sc.count)
        /\ \A key \in DOMAIN matrix : DOMAIN matrix[key] = 0..(sc.count - 1)

(***************************************************************************)
(* Scenarios.                                                              *)
(***************************************************************************)
\* The solutions reported by a chain of calls, as a set.
ReportedSet(cs) == {Reported(cs)[i] : i \in DOMAIN Reported(cs)}

\* A chain of calls on the S2 puzzle has returned.
S2Returned == puzzle = S2 /\ pc = "idle" /\ calls # <<>>

\* C15: on the puzzle of two strict categories {A, B, C} and {X, Y, Z} with
\* the single clue A = X, a chain of calls whose budgets sum to S2Budget ends
\* with done = true, and a chain that ends with done = true
\* has reported exactly twelve solutions, each once: the twelve fully
\* determined valid matrices in which A and X share a position.
C15_TwelveSolutions ==
    S2Returned =>
        /\ Budget(calls) >= S2Budget => calls[Len(calls)].done
        /\ calls[Len(calls)].done =>
               /\ Len(Reported(calls)) = 12
               /\ ReportedSet(calls) = Consistent(Puzzles[S2].clues, sc)
               /\ Cardinality(ReportedSet(calls)) = 12

C15_Witness ==
    /\ S2Returned
    /\ Len(calls) = 1
    /\ calls[1].done
    /\ Len(calls[1].solutions) = 12

\* C15 as stated: the chain that ends with done = true has reported exactly
\* six solutions.
C15_SixSolutions ==
    S2Returned =>
        /\ Budget(calls) >= S2Budget => calls[Len(calls)].done
        /\ calls[Len(calls)].done => Len(Reported(calls)) = 6

\* The puzzle whose clue forces two items to the same position.
S3 == CHOOSE p \in DOMAIN Puzzles : Puzzles[p] = Contradiction

\* A chain of calls on the S3 puzzle has returned.
S3Returned == puzzle = S3 /\ pc = "idle" /\ calls # <<>>

\* C16: on the puzzle with the clue A = #1 & B = #1, A and B two items of one
\* strict category, no call reports a solution, and a chain of calls whose
\* budgets sum to two waves or more ends with done = true and an empty
\* option stack: the first wave branches, the second drops every branch.
C16_Contradiction ==
    S3Returned =>
        /\ Reported(calls) = <<>>
        /\ Budget(calls) >= 2 =>
               /\ calls[Len(calls)].done
               /\ calls[Len(calls)].optionStack = <<>>

C16_Witness ==
    /\ S3Returned
    /\ Len(calls) = 1
    /\ calls[1].done
    /\ calls[1].solutions = <<>>
    /\ calls[1].optionStack = <<>>
    /\ calls[1].options > 1

(***************************************************************************)
(* The short-name table.                                                   *)
(***************************************************************************)
\* The categories given to the call that have an item of the name.
CategoriesOf(name) ==
    {i \in DOMAIN categories : Includes(categories[i].items, name)}

\* The item names of the categories given to the call.
ItemNames ==
    UNION {{categories[i].items[j] : j \in DOMAIN categories[i].items} :
           i \in DOMAIN categories}

\* C17: in the table that shortNamesMap builds an item name is present exactly
\* when the name occurs in exactly one category, and it is then mapped to the
\* key category.item of that category; a name of two or more categories is
\* absent.
C17_ShortNames ==
    [][(pc = "solve" /\ pc' = "matrix") =>
          \A name \in ItemNames :
              /\ name \in DOMAIN sc'.nameKV <=>
                     Cardinality(CategoriesOf(name)) = 1
              /\ name \in DOMAIN sc'.nameKV =>
                     \E i \in CategoriesOf(name) :
                         sc'.nameKV[name] = Key(categories[i].name, name)]_vars

(***************************************************************************)
(* The propagation steps.                                                  *)
(***************************************************************************)
\* The matrix has the shape of the initial matrix.
Regular(matrix) ==
    \A key \in DOMAIN matrix : DOMAIN matrix[key] = 0..(sc.count - 1)

\* The distance of a positional clue: 0 for `=`, the distance of the token
\* or 1 for `-`.
DistanceOf(token) ==
    IF token.operator = "=" THEN 0
    ELSE IF token.distance = -1 THEN 1 ELSE token.distance

\* The matrix after the step of the positional clue on the rows l and r.
After(token, l, r) ==
    PositionalEval(token, State.matrix, l, r, sc)

\* The positional clues `=` and `-` of every distance below the number of
\* positions, the distance left out included.
Distances ==
    {PositionalOperation(operator, Id("A"), Id("B"), dist) :
        operator \in {"=", "-"}, dist \in -1..(sc.count - 1)}

\* C18: the step of a positional clue of distance k on two distinct rows A
\* and B, 0 <= k < N, leaves A possible at p exactly where A was possible at p
\* and B at p + k, leaves B possible at q exactly where B was possible at q
\* and A at q - k, and leaves every other row as it was.
C18_DistancePropagation ==
    (pc = "clue" /\ Regular(State.matrix)) =>
        \A token \in Distances :
            \A l, r \in DOMAIN State.matrix :
                (l # r /\ DistanceOf(token) < sc.count) =>
                    With(After(token, l, r), LAMBDA a :
                    With(DistanceOf(token), LAMBDA k :
                        /\ a.exc = "none"
                        /\ DOMAIN a.m = DOMAIN State.matrix
                        /\ \A p \in 0..(sc.count - 1) :
                               /\ Cell(a.m[l], p) <=>
                                      /\ Cell(State.matrix[l], p)
                                      /\ p + k < sc.count
                                      /\ Cell(State.matrix[r], p + k)
                               /\ Cell(a.m[r], p) <=>
                                      /\ Cell(State.matrix[r], p)
                                      /\ p >= k
                                      /\ Cell(State.matrix[l], p - k)
                        /\ \A key \in DOMAIN State.matrix \ {l, r} :
                               a.m[key] = State.matrix[key]))

\* The clue A -2- C has acted on the initial matrix of three positions.
C18_Witness ==
    /\ pc = "eliminate"
    /\ State.clues[1].type = "PositionalOperation"
    /\ State.clues[1].operator = "-"
    /\ State.clues[1].distance = 2
    /\ TrueCells(State.matrix[Key(<<"n">>, <<"A">>)]) = {0}
    /\ TrueCells(State.matrix[Key(<<"n">>, <<"B">>)]) = {0, 1, 2}
    /\ TrueCells(State.matrix[Key(<<"n">>, <<"C">>)]) = {2}

\* C19: the step of A -- B on two distinct rows leaves B possible at q exactly
\* where B was possible at q and A somewhere left of q, then leaves A possible
\* at p exactly where A was possible at p and B is still possible somewhere
\* right of p; afterwards every position of B has a position of A strictly to
\* its left, every position of A has a position of B strictly to its right,
\* and every other row is as it was.
C19_StrictlyLeft ==
    (pc = "clue" /\ Regular(State.matrix)) =>
        \A l, r \in DOMAIN State.matrix :
            l # r =>
                With(After(Pos("--", Id("A"), Id("B")), l, r), LAMBDA a :
                    /\ a.exc = "none"
                    /\ DOMAIN a.m = DOMAIN State.matrix
                    /\ \A q \in 0..(sc.count - 1) :
                           Cell(a.m[r], q) <=>
                               /\ Cell(State.matrix[r], q)
                               /\ \E p \in TrueCells(State.matrix[l]) : p < q
                    /\ \A p \in 0..(sc.count - 1) :
                           Cell(a.m[l], p) <=>
                               /\ Cell(State.matrix[l], p)
                               /\ \E q \in TrueCells(a.m[r]) : p < q
                    /\ \A q \in TrueCells(a.m[r]) :
                           \E p \in TrueCells(a.m[l]) : p < q
                    /\ \A p \in TrueCells(a.m[l]) :
                           \E q \in TrueCells(a.m[r]) : p < q
                    /\ \A key \in DOMAIN State.matrix \ {l, r} :
                           a.m[key] = State.matrix[key])

\* The clue A -- B has acted on the initial matrix of three positions.
C19_Witness ==
    /\ pc = "eliminate"
    /\ Len(State.clues) = 1
    /\ State.clues[1].type = "PositionalOperation"
    /\ State.clues[1].operator = "--"
    /\ TrueCells(State.matrix[Key(<<"n">>, <<"A">>)]) = {0, 1}
    /\ TrueCells(State.matrix[Key(<<"n">>, <<"B">>)]) = {1, 2}
    /\ TrueCells(State.matrix[Key(<<"n">>, <<"C">>)]) = {0, 1, 2}

\* The clues the disjunctions below are made of.
Disjuncts ==
    {First, Pos("=", Id("B"), Position("1")), Pos("=", Id("A"), Position("2")),
     Pos("--", Id("A"), Id("B"))}

\* The binary disjunctions c1 | c2 and the disjunctions ||(c1, c2, c3).
Disjunctions ==
    {LogicalBinaryOperation("|", c1, c2) : c1, c2 \in Disjuncts}
        \cup {LogicalOperation("|", SetLiteral(<<c1, c2, c3>>)) :
                c1 \in Disjuncts, c2 \in {Pos("=", Id("B"), Position("1"))},
                c3 \in {Pos("=", Id("A"), Position("2"))}}

\* The copy of the matrix on which the disjunct is propagated and the full
\* elimination is run.
Copy(clue) ==
    With(parseClue(clue, State.matrix, 1, sc), LAMBDA a :
         eliminateImpossibleOptions([m |-> a.m, exc |-> a.exc], sc))

\* C20: the step of a disjunction, binary or n-ary, leaves a cell of the
\* matrix true exactly when it was true before and is true in the copy of at
\* least one disjunct, the copy being the matrix as it was before the step
\* with the disjunct propagated and the elimination run on it.  The matrices
\* are those of the first call of a chain.
C20_Disjunction ==
    (pc = "clue" /\ calls = <<>> /\ Regular(State.matrix)) =>
        \A token \in Disjunctions :
            With(parseClue(token, State.matrix, 1, sc), LAMBDA a :
            With([i \in DOMAIN token.operands |-> Copy(token.operands[i])],
                 LAMBDA copies :
                a.exc = "none" =>
                    /\ DOMAIN a.m = DOMAIN State.matrix
                    /\ \A i \in DOMAIN copies : copies[i].exc = "none"
                    /\ \A key \in DOMAIN State.matrix :
                           \A p \in 0..(sc.count - 1) :
                               Cell(a.m[key], p) <=>
                                   /\ Cell(State.matrix[key], p)
                                   /\ \E i \in DOMAIN copies :
                                          Cell(copies[i].m[key], p)))

\* The clue A = #1 | A = #2 has acted on the initial matrix of three
\* positions: A has lost the third position and nothing else has changed.
C20_Witness ==
    /\ pc = "eliminate"
    /\ Len(State.clues) = 1
    /\ State.clues[1].type = "LogicalBinaryOperation"
    /\ State.clues[1].operator = "|"
    /\ TrueCells(State.matrix[Key(<<"n">>, <<"A">>)]) = {0, 1}
    /\ TrueCells(State.matrix[Key(<<"n">>, <<"B">>)]) = {0, 1, 2}
    /\ TrueCells(State.matrix[Key(<<"n">>, <<"C">>)]) = {0, 1, 2}
    /\ TrueCells(State.matrix[Key(Hash, <<"3">>)]) = {2}

(***************************************************************************)
(* Subset elimination.                                                     *)
(***************************************************************************)
\* The items of the category whose row has no possibility in S.
Outside(matrix, category, S) ==
    {j \in DOMAIN category.items :
        TrueCells(matrix[Key(category.name, category.items[j])]) \cap S = {}}

\* The matrix of the state after elimination in the category.
Eliminated(category) ==
    eliminateImpossibleOptionsByCategory(
        [m |-> State.matrix, exc |-> "none"], category.name, sc)

\* C21: after elimination in a category, for every set S of k positions,
\* 1 <= k < N, such that N - k rows or more of the category had all their
\* possibilities outside S, every other row of the category has no
\* possibility left outside S.
C21_NakedSubsets ==
    (pc = "eliminate" /\ Regular(State.matrix)) =>
        \A i \in DOMAIN sc.categories :
            With(sc.categories[i], LAMBDA category :
            With(Eliminated(category), LAMBDA e :
                e.exc = "none" =>
                    \A S \in SUBSET (0..(sc.count - 1)) :
                        (/\ Cardinality(S) \in 1..(sc.count - 1)
                         /\ Cardinality(Outside(State.matrix, category, S))
                                >= sc.count - Cardinality(S)) =>
                            \A j \in DOMAIN category.items
                                       \ Outside(State.matrix, category, S) :
                                TrueCells(e.m[Key(category.name,
                                                  category.items[j])]) \subseteq S))

(***************************************************************************)
(* The narrowing loop.                                                     *)
(***************************************************************************)
\* C22: the matrix that solveOption validates is quiescent: one more pass
\* over the clues followed by elimination changes no cell of it.
C22_Quiescent ==
    pc = "validate" =>
        With(iteration(State, sc), LAMBDA a :
            a.exc = "none" =>
                ~Changed(a.state.matrix, State.matrix, sc.count))

(***************************************************************************)
(* Branching.                                                              *)
(***************************************************************************)
\* The items of the category still possible in the column, in category order.
Possible(matrix, category, p) ==
    SelectSeq(category.items,
              LAMBDA item : Cell(matrix[Key(category.name, item)], p))

\* The child is the parent with the column p of the category fixed to item.
ChildOf(child, parent, category, p, item) ==
    /\ child.clues = parent.clues
    /\ DOMAIN child.matrix = DOMAIN parent.matrix
    /\ \A key \in DOMAIN parent.matrix :
           /\ DOMAIN child.matrix[key] = DOMAIN parent.matrix[key]
           /\ \A q \in DOMAIN parent.matrix[key] :
                  child.matrix[key][q] =
                      IF q = p /\ \E j \in DOMAIN category.items :
                                      key = Key(category.name, category.items[j])
                      THEN key = Key(category.name, item)
                      ELSE parent.matrix[key][q]

\* C23: a state whose result is 0 and that has a branching cell, a column p
\* of a category c with the fewest (two or more) items still possible, pushes
\* one child per item still possible there, in category order, each the
\* parent with the cell fixed to its item; a state whose result is not 0
\* pushes nothing.
C23_Branching ==
    [][/\ (pc = "branch" /\ pc' # "failed") =>
              \E c \in DOMAIN sc.categories, p \in 0..(sc.count - 1) :
                  With(Possible(State.matrix, sc.categories[c], p), LAMBDA possible :
                      /\ Len(possible) >= 2
                      /\ \A e \in DOMAIN sc.categories, q \in 0..(sc.count - 1) :
                             \/ Len(Possible(State.matrix, sc.categories[e], q)) <= 1
                             \/ Len(Possible(State.matrix, sc.categories[e], q))
                                    >= Len(possible)
                      /\ Len(newOptionStack') = Len(newOptionStack) + Len(possible)
                      /\ SubSeq(newOptionStack', 1, Len(newOptionStack))
                             = newOptionStack
                      /\ \A k \in DOMAIN possible :
                             ChildOf(newOptionStack'[Len(newOptionStack) + k],
                                     State, sc.categories[c], p, possible[k]))
       /\ (pc = "validate" /\ solved' # 0) => newOptionStack' = newOptionStack
      ]_vars

\* A wave of one state has ended with three children, all different.
C23_Witness ==
    /\ pc = "waveEnd"
    /\ Len(optionStack) = 1
    /\ Len(newOptionStack) = 3
    /\ Cardinality({newOptionStack[k].matrix : k \in 1..3}) = 3

(***************************************************************************)
(* Arithmetic.                                                             *)
(***************************************************************************)
\* The clue is true on every fully determined valid matrix that narrows the
\* matrix of the state.
DeterminatelyTrue(clue) ==
    \A full \in FullNarrowings(State.matrix, sc) : TrueOn(clue, full, 1, sc)

\* truths(A = #1, B = #1) and truths(B:e == 1, B:e == 2).
Truths ==
    {TruthsOperator(SetLiteral(<<First, Pos("=", Id("B"), Position("1"))>>)),
     TruthsOperator(SetLiteral(
         <<RelationalOperation("==", AgeOf("B"), NumericLiteral(1)),
           RelationalOperation("==", AgeOf("B"), NumericLiteral(2))>>))}

\* C24: on a matrix of the puzzles of the categories n {A, B} and e {1, 2}
\* that some valid assignment narrows, truths(c1, ..., cn) evaluates without
\* an exception to the number of the elements that are determinately true.
C24_TruthsCount ==
    (/\ pc = "clue"
     /\ Puzzles[puzzle].categories = Two
     /\ Regular(State.matrix)
     /\ FullNarrowings(State.matrix, sc) # {}) =>
        \A exp \in Truths :
            With(parseArithmetic(exp, State.matrix, 1, sc), LAMBDA a :
                /\ a.exc = "none"
                /\ a.val = Num(Cardinality(
                       {i \in DOMAIN exp.operands[1].elements :
                           DeterminatelyTrue(exp.operands[1].elements[i])})))

\* The quotients l / r of two literals, r # 0, among the operands of the clues.
Quotients(clues) ==
    {clues[i].operands[2] : i \in
        {i \in DOMAIN clues :
            /\ clues[i].type = "RelationalOperation"
            /\ clues[i].operands[2].type = "ArithmeticBinaryOperation"
            /\ clues[i].operands[2].operator = "/"
            /\ clues[i].operands[2].operands[1].type = "NumericLiteral"
            /\ clues[i].operands[2].operands[2].type = "NumericLiteral"
            /\ clues[i].operands[2].operands[2].value > 0}}

\* C25: l / r on two definite integers evaluates to the integer quotient of
\* l by r, and the relational clue that compares the quotient with that
\* integer is true.
C25_IntegerQuotient ==
    pc = "clue" =>
        \A exp \in Quotients(State.clues) :
            With(Num(exp.operands[1].value \div exp.operands[2].value), LAMBDA q :
                /\ parseArithmetic(exp, State.matrix, cursor.d, sc).val = q
                /\ checkClueThrowable(
                       RelationalOperation("==", exp, NumericLiteral(q.n)),
                       State.matrix, cursor.d, sc).v)

\* C26: a state for which solveOption returned 0 has a cell with two or more
\* possible items, and branching on it does not fail.
C26_BranchingCell ==
    pc = "branch" =>
        /\ MinimumCell(State.matrix, sc).col # -1
        /\ Expand(State, sc).exc = "none"

\* The valid assignments of one category that narrow the matrix: every
\* position holds one item possible there and no item is at two positions.
\* In a strict category, which has as many items as positions, every item
\* is then at exactly one position.
Assignments(matrix, category, cfg) ==
    {f \in [0..(cfg.count - 1) -> DOMAIN category.items] :
        /\ \A p, q \in 0..(cfg.count - 1) : f[p] = f[q] => p = q
        /\ \A p \in 0..(cfg.count - 1) :
               Cell(matrix[Key(category.name, category.items[f[p]])], p)}

\* C27: subset elimination clears no cell that is true in a valid assignment
\* of the category narrowing the matrix, in great categories as in strict ones.
C27_EliminationSound ==
    (pc = "eliminate" /\ Regular(State.matrix)) =>
        \A i \in DOMAIN sc.categories :
            With(sc.categories[i], LAMBDA category :
            With(Eliminated(category), LAMBDA e :
                e.exc = "none" =>
                    \A f \in Assignments(State.matrix, category, sc) :
                        \A p \in 0..(sc.count - 1) :
                            Cell(e.m[Key(category.name, category.items[f[p]])], p)))

\* C28: between the calls, and after a call that failed, the categories the
\* caller holds are the categories of the compiled puzzle.
C28_CategoriesUnchanged ==
    pc \in {"idle", "failed"} => categories = Puzzles[puzzle].categories

(***************************************************************************)
(* The search.                                                             *)
(***************************************************************************)
\* The solutions reported so far over the chain: those of the calls that
\* returned and those the running call has pushed.
SoFar ==
    Reported(calls) \o
        (IF pc \in {"idle", "solve", "matrix", "failed"} THEN <<>>
         ELSE stats.solutions)

\* C29: no two entries of the solutions reported over a chain of calls are
\* equal matrices.
C29_NoDuplicates ==
    \A i, j \in DOMAIN SoFar : SoFar[i] = SoFar[j] => i = j

\* A chain of two calls that each reported solutions, three or more in all.
C29_Witness ==
    /\ pc = "idle"
    /\ Len(calls) = 2
    /\ calls[1].solutions # <<>>
    /\ calls[2].solutions # <<>>
    /\ Len(Reported(calls)) >= 3

\* The number of true cells of a matrix.
RECURSIVE Sum(_, _)
Sum(f, S) ==
    IF S = {} THEN 0
    ELSE With(CHOOSE x \in S : TRUE, LAMBDA x : f[x] + Sum(f, S \ {x}))

TrueCount(matrix) ==
    Sum([key \in DOMAIN matrix |-> Cardinality(TrueCells(matrix[key]))],
        DOMAIN matrix)

\* The errors by which solve rejects a puzzle.
SolverErrors ==
    Permanent \cup {"NoCategories", "MismatchedCategorySize",
                    "InvalidPositionalOperand", "UnexpectedOperator"}

\* C30: every child pushed by a branching step has fewer true cells than its
\* parent, and a chain of calls with the largest budget eventually returns
\* done = true, unless solve rejects the puzzle with a SolverError.
C30_Terminates ==
    /\ [][pc = "branch" =>
             \A k \in (Len(newOptionStack) + 1)..Len(newOptionStack') :
                 TrueCount(newOptionStack'[k].matrix) < TrueCount(State.matrix)]_vars
    /\ <>(\/ (pc = "idle" /\ calls # <<>> /\ calls[Len(calls)].done)
          \/ (pc = "failed" /\ error \in SolverErrors))

====
